---- MODULE Spec2Model ----
(***************************************************************************)
(* A model of ssh-chat: the ban store (abuse/ban.rs), the hub              *)
(* (chat/server.rs), the SSH acceptor and session handler (ssh/server.rs), *)
(* the rate limiter (abuse/rate_limit.rs), AutoBahn (abuse/autobahn.rs),   *)
(* the threat lists (abuse/threats.rs) and the operator console            *)
(* (tui/console.rs).                                                       *)
(*                                                                         *)
(* The specifications share the variables:                                 *)
(*   SpecBan   the ban store alone: its methods one after another, the     *)
(*             clock, the ban-list file, IO errors and process restarts;   *)
(*   SpecBanConc  the ban store with concurrent mutating callers, each     *)
(*             method in the steps its locks allow;                        *)
(*   Spec      the hub, the sessions and the operator, with the ban store  *)
(*             called as the hub calls it, each method one step;           *)
(*   SpecHubConc  the hub's methods in the steps their locks allow, called *)
(*             by concurrent sessions and the operator, with the writer    *)
(*             tasks' receivers;                                           *)
(*   SpecAddConc  concurrent calls of add_client alone;                    *)
(*   SpecRate  the rate limiter's token bucket;                            *)
(*   SpecFlood the rate limiter's flood window;                            *)
(*   SpecConn  the rate limiter's connection limit per IP;                 *)
(*   SpecLag   SpecHubConc on a fanout channel small enough to overrun;    *)
(*   SpecOperator  Spec with nicknames that read as addresses and with     *)
(*             writes of the ban list that fail during unban;              *)
(*   SpecBahn  AutoBahn's violation records and delays, enabled or not;    *)
(*   SpecBahnConc  check_connection and record_violation in the steps      *)
(*             their awaits and shard locks allow;                         *)
(*   SpecThreat  the threat lists: refreshes and concurrent checks;        *)
(*   SpecConsole  the console's duration and command parser;               *)
(*   SpecEditor  one session's line editor, packet by packet, with echo    *)
(*             writes that can fail;                                       *)
(*   SpecTui   the dashboard's key handling and its command line;          *)
(*   SpecWriters  sessions that join and leave, with fair writer tasks;    *)
(*   SpecRateConc  register_client and unregister_client in the steps      *)
(*             their map guards allow, from one address;                   *)
(*   SpecRemoved  sessions, chat lines, kicks and bans that succeed;       *)
(*   SpecCleanup  SpecFlood with the token bucket's check and              *)
(*             cleanup_inactive_clients;                                   *)
(*   SpecBanFail  sessions and bans whose write of the ban list can fail.  *)
(* Each specification leaves the other components' variables unchanged.    *)
(***************************************************************************)
EXTENDS Integers, Sequences, FiniteSets, TLC

(***************************************************************************)
(* Bounds of the model.                                                    *)
(***************************************************************************)
\* the clock runs from 0 to MaxTime minutes
MaxTime == 1
\* temporary bans last 0..MaxMinutes minutes
MaxMinutes == 1
\* concurrent callers of the ban store
MaxCallers == 2
\* writes of the ban-list file that fail with an IO error
MaxIoFailures == 1
\* SSH connections the acceptor hands to a session handler
MaxSessions == 2
\* caps of the hub's counters: clients registered, chat lines broadcast,
\* kick commands and ban commands that succeed
MaxConnections == 2
MaxMessages == 1
MaxKicks == 1
MaxBans == 1
\* events a channel may hold unread when the next emitting step is taken
MaxBacklog == 0
\* the capacity of the fanout channel: broadcast::channel(1000)
FanoutCapacity == 1000

IPs == {"10.0.0.1", "10.0.0.2"}
Reasons == {"spam", "abuse"}
Callers == 1..MaxCallers
Sessions == 1..MaxSessions
Nicks == {"alice", "bob"}
Texts == {"hi"}

VARIABLES
    \* ---- ban store (abuse/ban.rs)
    now,        \* SystemTime::now(), in seconds
    bans,       \* BanManager.bans: the HashMap<IpAddr, BanEntry> under the RwLock
    disk,       \* the content of the file at ban_list_path
    call,       \* each caller's position in a BanManager method
    last_ret,   \* the BanManager call that returned last, and what it returned
    unsaved,    \* TRUE while the latest save() failed (history)
    io_failures, \* the number of writes (of the file, of an SSH channel) that
                \* failed so far
    \* ---- hub (chat/server.rs)
    clients,    \* ChatServer.clients: the DashMap<Uuid, Client>, as a set of Clients
    next_id,    \* the number of the next Uuid::new_v4()
    stats,      \* ChatServer.stats
    system_rx,  \* the operator log channel: SystemLogs sent and not yet received
    \* ---- sessions (ssh/server.rs)
    sess,       \* each connection's SshHandler and its position
    writers,    \* per session, the fanout receivers of its writer tasks
    hub_ret,    \* the step taken last: what it returned and what it wrote
                \* to the session's SSH channel
    \* ---- rate limiter (abuse/rate_limit.rs)
    clock,            \* the limiter's clock, in ticks
    client_limiters,  \* RateLimiter.client_limiters: per client, its limiter's state
    ip_connections,   \* RateLimiter.ip_connections
    message_history,  \* RateLimiter.message_history
    rate_ret,         \* the RateLimiter method called last and what it returned
    successes,        \* per client, when its limiter's latest checks succeeded (history)
    flood_calls,      \* per client, when its check_flood calls succeeded and when
                      \* the latest of its check_flood calls was made (history)
    \* ---- AutoBahn (abuse/autobahn.rs)
    enabled,          \* AutoBahn.config.enabled
    violations,       \* AutoBahn.violations: per IP, its ViolationRecord
    bahn_ret,         \* the AutoBahn method called last and what it returned
    bahn_call,        \* each caller's position in check_connection
    \* ---- the hub's methods step by step (chat/server.rs)
    hub_call,         \* each session's position in a ChatServer method
    op_call,          \* the operator's position in kick_client or ban_client
    chat_log,         \* every event sent on chat_tx so far, in the order sent (history)
    receivers,        \* per session, the broadcast::Receiver of its writer task
    \* ---- threat lists (abuse/threats.rs)
    threat_config,    \* ThreatListManager.config: enabled and action
    ip_list,          \* ThreatListManager.ip_list: the HashSet<IpAddr> under its RwLock
    cidr_list,        \* ThreatListManager.cidr_list: the Vec<IpNetwork> under its RwLock
    threat_call,      \* each caller's position in check_ip
    threat_ret,       \* the ThreatListManager step taken last and what it returned
    \* ---- operator console (tui/console.rs)
    console_ret,      \* the token parse_duration was given last and what it returned
    tui,              \* the TuiConsole's command mode state, and whether its
                      \* loop ended (quit) or the thread panicked
    \* ---- the sessions' line editor (ssh/server.rs)
    input_buffer,     \* per session, SshHandler.input_buffer
    \* ---- the rate limiter's methods step by step (abuse/rate_limit.rs)
    rate_call         \* each caller's position in register_client or
                      \* unregister_client

banVars == <<now, bans, disk, call, last_ret, unsaved, io_failures>>
hubVars == <<clients, next_id, stats, system_rx, sess, writers, hub_ret>>
rateVars == <<clock, client_limiters, ip_connections, message_history, rate_ret, successes,
              flood_calls>>
bahnVars == <<enabled, violations, bahn_ret, bahn_call>>
concVars == <<hub_call, op_call, chat_log, receivers>>
threatVars == <<threat_config, ip_list, cidr_list, threat_call, threat_ret>>
uiVars == <<tui, input_buffer>>
vars == <<now, bans, disk, call, last_ret, unsaved, io_failures,
          clients, next_id, stats, system_rx, sess, writers, hub_ret,
          clock, client_limiters, ip_connections, message_history, rate_ret, successes,
          flood_calls, enabled, violations, bahn_ret, bahn_call,
          hub_call, op_call, chat_log, receivers,
          threat_config, ip_list, cidr_list, threat_call, threat_ret, console_ret,
          tui, input_buffer, rate_call>>

(***************************************************************************)
(* BanEntry and the clock.  Option<SystemTime> is a set with at most one   *)
(* element: {} is None, {t} is Some(t).                                    *)
(***************************************************************************)
BanEntry(ip, reason, banned_at, expires_at) ==
    [ip |-> ip, reason |-> reason, banned_at |-> banned_at, expires_at |-> expires_at]

\* is_active with `now <= expiry`
is_active_inclusive(entry, t) ==
    IF entry.expires_at = {} THEN TRUE ELSE \A expiry \in entry.expires_at : t <= expiry

\* BanEntry::is_active at clock value t
is_active(entry, t) ==
    IF entry.expires_at = {} THEN TRUE
    ELSE \A expiry \in entry.expires_at : t < expiry

\* BanEntry::is_expired
is_expired(entry, t) == ~is_active(entry, t)

\* HashMap::insert: a second insert for the same key overwrites
MapInsert(m, k, v) == [x \in (DOMAIN m) \cup {k} |-> IF x = k THEN v ELSE m[x]]

\* HashMap::remove
MapRemove(m, k) == [x \in (DOMAIN m) \ {k} |-> m[x]]

EmptyMap == [x \in {} |-> x]

(***************************************************************************)
(* The ban-list file.  serde writes {"bans": {"<ip>": BanEntry}}; a        *)
(* BanEntry's expires_at field is left out when it is None                 *)
(* (skip_serializing_if) and a missing field reads back as None.           *)
(***************************************************************************)
SerializeEntry(entry) ==
    IF entry.expires_at = {}
    THEN [ip |-> entry.ip, reason |-> entry.reason, banned_at |-> entry.banned_at]
    ELSE [ip |-> entry.ip, reason |-> entry.reason, banned_at |-> entry.banned_at,
          expires_at |-> CHOOSE t \in entry.expires_at : TRUE]

\* a load that reads no expires_at
DeserializeEntryWithoutExpiry(obj) ==
    [ip |-> obj.ip, reason |-> obj.reason, banned_at |-> obj.banned_at, expires_at |-> {}]

DeserializeEntry(obj) ==
    [ip |-> obj.ip, reason |-> obj.reason, banned_at |-> obj.banned_at,
     expires_at |-> IF "expires_at" \in DOMAIN obj THEN {obj.expires_at} ELSE {}]

\* serde_json::to_string_pretty(&BanList)
Serialize(m) == [kind |-> "json", bans |-> [k \in DOMAIN m |-> SerializeEntry(m[k])]]

\* serde_json::from_str::<BanList>
Deserialize(file) == [k \in DOMAIN file.bans |-> DeserializeEntry(file.bans[k])]

FileMissing == [kind |-> "missing"]
\* what a failed fs::write can leave behind: a truncated file
FileTruncated == [kind |-> "truncated"]

(***************************************************************************)
(* BanManager's read operations, on the map m at clock value t.            *)
(***************************************************************************)
\* an is_banned that answers for permanent bans only
is_banned_permanent_in(m, ip, t) == ip \in DOMAIN m /\ m[ip].expires_at = {}

\* BanManager::is_banned
is_banned_in(m, ip, t) == IF ip \in DOMAIN m THEN is_active(m[ip], t) ELSE FALSE

\* a check that answers for permanent bans only
check_ban_permanent_in(m, ip, t) ==
    IF ip \in DOMAIN m /\ m[ip].expires_at = {} THEN {m[ip]} ELSE {}

\* BanManager::check_ban: Some(entry) as {entry}, None as {}
check_ban_in(m, ip, t) ==
    IF ip \in DOMAIN m /\ is_active(m[ip], t) THEN {m[ip]} ELSE {}

\* BanManager::get_all_bans
get_all_bans_in(m, t) == {m[k] : k \in {x \in DOMAIN m : is_active(m[x], t)}}

\* BanManager::ban_count
ban_count_in(m, t) == Cardinality({k \in DOMAIN m : is_active(m[k], t)})

is_banned(ip) == is_banned_in(bans, ip, now)
check_ban(ip) == check_ban_in(bans, ip, now)
ban_count == ban_count_in(bans, now)

\* a cleanup that takes every temporary entry for expired
expired_ips_every_temporary(m, t) == {k \in DOMAIN m : m[k].expires_at # {}}

\* the keys cleanup_expired collects under the write lock
expired_ips(m, t) == {k \in DOMAIN m : is_expired(m[k], t)}

\* the map after cleanup_expired's removals
WithoutExpired(m, t) == [k \in (DOMAIN m) \ expired_ips(m, t) |-> m[k]]

\* the entry ban_permanent builds
PermanentEntry(ip, reason, t) == BanEntry(ip, reason, t, {})

\* the entry ban_temporary builds: expires_at = now + duration
TemporaryEntry(ip, duration, reason, t) == BanEntry(ip, reason, t, {t + duration})

\* what fs::write leaves in the file: the new content, or on an IO error
\* the old content (the open failed) or a truncated file (the write failed)
FileAfterWrite(old, json, io_ok) ==
    IF io_ok THEN {json} ELSE {old, FileTruncated}

(***************************************************************************)
(* MessageEvent (chat/message.rs) and the state ChatServer::new and        *)
(* SshHandler::new build.  Option<T> is a set with at most one element.    *)
(* Client.color and Client.connected_at are only displayed and are left    *)
(* out.                                                                    *)
(***************************************************************************)
Client(id, nickname, ip) == [id |-> id, nickname |-> nickname, ip |-> ip]

ChatEvent(nickname, text, ip) ==
    [type |-> "Chat", nickname |-> nickname, text |-> text, ip |-> ip]

NoticeEvent(kind, nickname, ip) ==
    [type |-> "Notice", kind |-> kind, nickname |-> nickname, ip |-> ip]

\* SystemLog: message is the format string used, action an Option<AdminAction>
SystemEvent(level, message, ip, action) ==
    [type |-> "System", level |-> level, message |-> message, ip |-> ip, action |-> action]

\* the string of the n-th Uuid
UuidOf(n) == "uuid-" \o ToString(n)

\* wrote is an Option: the line the step wrote to the SSH channel
NoStep == [op |-> "none", ok |-> TRUE, ip |-> "-", arg |-> "-", wrote |-> {}]
Step(op, ok, ip, arg, wrote) ==
    [op |-> op, ok |-> ok, ip |-> ip, arg |-> arg, wrote |-> wrote]

\* SshHandler::new for a connection from ip; "none" is a connection slot
\* the acceptor has not filled
NoSession == [st |-> "none", ip |-> {}, nickname |-> {}, client_id |-> {}]
NewHandler(ip) == [st |-> "new", ip |-> {ip}, nickname |-> {}, client_id |-> {}]

InitHub ==
    /\ clients = {}
    /\ next_id = 1
    /\ stats = [total_messages |-> 0, total_connections |-> 0,
                total_kicks |-> 0, total_bans |-> 0]
    /\ system_rx = << >>
    /\ sess = [s \in Sessions |-> NoSession]
    /\ writers = [s \in Sessions |-> << >>]
    /\ hub_ret = NoStep

\* RateLimiter::new
InitRate ==
    /\ clock = 0
    /\ client_limiters = EmptyMap
    /\ ip_connections = EmptyMap
    /\ message_history = EmptyMap
    /\ rate_ret = [op |-> "none", client |-> "-", res |-> "none"]
    /\ successes = EmptyMap
    /\ flood_calls = EmptyMap

\* what an AutoBahn method returned: the attempts it counted for the IP, the
\* connection delay and the violation delay it slept (ms) and its result
BahnRet(op, ip, attempts, connection_delay, violation_delay, res) ==
    [op |-> op, ip |-> ip, attempts |-> attempts, connection_delay |-> connection_delay,
     violation_delay |-> violation_delay, res |-> res]

\* sessions that call add_client concurrently (SpecAddConc)
MaxHubCallers == 3
HubCallers == 1..MaxHubCallers

\* a session that is in no method of the hub and has no client
NoHubCall == [pc |-> "idle", nickname |-> {}, ip |-> {}, id |-> {}]

\* ChatServer::new, and no session yet
InitConc ==
    /\ hub_call = [c \in HubCallers |-> NoHubCall]
    /\ op_call = [pc |-> "idle", target |-> {}]
    /\ chat_log = << >>
    /\ receivers = [c \in HubCallers |-> {}]

\* tasks that call AutoBahn concurrently (SpecBahnConc)
MaxBahnCallers == 2
BahnCallers == 1..MaxBahnCallers

\* a task that is in no method of AutoBahn
NoBahnCall == [pc |-> "idle", ip |-> {}, record |-> {}]

\* AutoBahn::new with config.enabled = e
AutoBahnNew(e) ==
    /\ enabled = e
    /\ violations = EmptyMap
    /\ bahn_ret = BahnRet("none", "-", 0, 0, 0, "none")
    /\ bahn_call = [c \in BahnCallers |-> NoBahnCall]

InitBahn == AutoBahnNew(TRUE)

\* ThreatListConfig: enabled and action
ThreatListsConfig(is_enabled, action) == [enabled |-> is_enabled, action |-> action]

\* tasks that call check_ip
MaxThreatCallers == 1
ThreatCallers == 1..MaxThreatCallers

\* a task that is in no method of ThreatListManager
NoThreatCall == [pc |-> "idle", ip |-> {}, passes |-> FALSE]

\* what a step of ThreatListManager did: for a refresh of one source, the
\* format and whether the fetch failed or the body was unparseable;
\* for check_ip, the address, the result, and whether a pair of lists in
\* force during the call lets the address pass
ThreatRet(op, arg, res, failed, passes) ==
    [op |-> op, arg |-> arg, res |-> res, failed |-> failed, passes |-> passes]

\* ThreatListManager::new
ThreatListManagerNew(config) ==
    /\ threat_config = config
    /\ ip_list = {}
    /\ cidr_list = << >>
    /\ threat_call = [c \in ThreatCallers |-> NoThreatCall]
    /\ threat_ret = ThreatRet("none", "-", "none", FALSE, FALSE)

InitThreat == ThreatListManagerNew(ThreatListsConfig(TRUE, "Block"))

\* no command given to the console yet
InitConsole ==
    console_ret = [token |-> << >>, res |-> [ok |-> FALSE, err |-> "none"], command |-> {}]

\* TuiConsole::new; Option<usize> is a set with at most one element
TuiConsoleNew ==
    [command_mode |-> FALSE, command_buffer |-> << >>, command_history |-> << >>,
     history_index |-> {}, status_message |-> {}, ended |-> "running"]

\* callers of the rate limiter that run concurrently
MaxRateCallers == 2
RateCallers == 1..MaxRateCallers

\* a caller that is in no method of the rate limiter
NoRateCall == [pc |-> "idle", client |-> {}, ip |-> {}]

\* TuiConsole::new, and SshHandler::new of every connection; no caller is
\* in a method of the rate limiter
InitUi ==
    /\ tui = TuiConsoleNew
    /\ input_buffer = [s \in Sessions |-> << >>]
    /\ rate_call = [c \in RateCallers |-> NoRateCall]

(***************************************************************************)
(* The ban store, one method call after another (SpecBan).  Every method   *)
(* is one action: the map update under the write lock and the save() that  *)
(* follows it.                                                             *)
(***************************************************************************)
Idle == [pc |-> "idle", op |-> "none", json |-> FileMissing]

\* a returned call: the method, its ip argument, what it built or removed (the
\* BanEntry of ban_*, the entries cleanup_expired dropped) and the result
Ret(op, ip, arg, res) == [op |-> op, ip |-> ip, arg |-> arg, res |-> res]

\* an IO error can still be injected
MayFail(io_ok) == io_ok \/ io_failures < MaxIoFailures

\* what the method returns once save() has returned: ban_* and unban pass the
\* error on with `?`, cleanup_expired drops it with `let _ =`
ReturnOf(op, io_ok) ==
    IF op = "cleanup_expired" THEN "unit"
    ELSE IF io_ok THEN "ok" ELSE "err"

\* BanManager::save called by method op (for ip) on the map m, and the return of op
save(m, op, ip, arg, io_ok) ==
    /\ MayFail(io_ok)
    /\ disk' \in FileAfterWrite(disk, Serialize(m), io_ok)
    /\ unsaved' = ~io_ok
    /\ io_failures' = IF io_ok THEN io_failures ELSE io_failures + 1
    /\ last_ret' = Ret(op, ip, arg, ReturnOf(op, io_ok))

Tick ==
    /\ now < MaxTime * 60
    /\ now' = now + 60
    /\ UNCHANGED <<bans, disk, call, last_ret, unsaved, io_failures>>
    /\ UNCHANGED hubVars /\ UNCHANGED rateVars /\ UNCHANGED bahnVars /\ UNCHANGED concVars /\ UNCHANGED threatVars /\ UNCHANGED console_ret /\ UNCHANGED uiVars /\ UNCHANGED rate_call

\* a ban_permanent that takes the entry back when the write fails
ban_permanent_rollback(ip, reason, io_ok) ==
    /\ bans' = IF io_ok THEN MapInsert(bans, ip, PermanentEntry(ip, reason, now)) ELSE bans
    /\ save(MapInsert(bans, ip, PermanentEntry(ip, reason, now)), "ban_permanent", ip,
            {PermanentEntry(ip, reason, now)}, io_ok)

\* BanManager::ban_permanent
ban_permanent(ip, reason, io_ok) ==
    /\ bans' = MapInsert(bans, ip, PermanentEntry(ip, reason, now))
    /\ save(bans', "ban_permanent", ip, {PermanentEntry(ip, reason, now)}, io_ok)

\* BanManager::ban_temporary
ban_temporary(ip, duration, reason, io_ok) ==
    /\ bans' = MapInsert(bans, ip, TemporaryEntry(ip, duration, reason, now))
    /\ save(bans', "ban_temporary", ip,
            {TemporaryEntry(ip, duration, reason, now)}, io_ok)

\* BanManager::unban: Ok(false) without a save when nothing was removed
unban_keeps_entry(ip, io_ok) ==
    /\ bans' = bans
    /\ IF ip \in DOMAIN bans
       THEN save(bans', "unban", ip, {}, io_ok)
       ELSE /\ io_ok
            /\ last_ret' = Ret("unban", ip, {}, "ok_false")
            /\ UNCHANGED <<disk, unsaved, io_failures>>

unban(ip, io_ok) ==
    /\ bans' = MapRemove(bans, ip)
    /\ IF ip \in DOMAIN bans
       THEN save(bans', "unban", ip, {}, io_ok)
       ELSE /\ io_ok
            /\ last_ret' = Ret("unban", ip, {}, "ok_false")
            /\ UNCHANGED <<disk, unsaved, io_failures>>

\* BanManager::cleanup_expired: no save when nothing was removed
cleanup_expired(io_ok) ==
    /\ bans' = WithoutExpired(bans, now)
    /\ IF expired_ips(bans, now) # {}
       THEN save(bans', "cleanup_expired", "-",
                 {bans[k] : k \in expired_ips(bans, now)}, io_ok)
       ELSE /\ io_ok
            /\ last_ret' = Ret("cleanup_expired", "-", {}, "unit")
            /\ UNCHANGED <<disk, unsaved, io_failures>>

BanPermanent(ip, reason, io_ok) ==
    ban_permanent(ip, reason, io_ok) /\ UNCHANGED <<now, call>> /\ UNCHANGED hubVars /\ UNCHANGED rateVars /\ UNCHANGED bahnVars /\ UNCHANGED concVars /\ UNCHANGED threatVars /\ UNCHANGED console_ret /\ UNCHANGED uiVars /\ UNCHANGED rate_call

BanTemporary(ip, duration, reason, io_ok) ==
    ban_temporary(ip, duration, reason, io_ok) /\ UNCHANGED <<now, call>> /\ UNCHANGED hubVars /\ UNCHANGED rateVars /\ UNCHANGED bahnVars /\ UNCHANGED concVars /\ UNCHANGED threatVars /\ UNCHANGED console_ret /\ UNCHANGED uiVars /\ UNCHANGED rate_call

Unban(ip, io_ok) == unban(ip, io_ok) /\ UNCHANGED <<now, call>> /\ UNCHANGED hubVars /\ UNCHANGED rateVars /\ UNCHANGED bahnVars /\ UNCHANGED concVars /\ UNCHANGED threatVars /\ UNCHANGED console_ret /\ UNCHANGED uiVars /\ UNCHANGED rate_call

CleanupExpired(io_ok) ==
    cleanup_expired(io_ok) /\ UNCHANGED <<now, call>> /\ UNCHANGED hubVars /\ UNCHANGED rateVars /\ UNCHANGED bahnVars /\ UNCHANGED concVars /\ UNCHANGED threatVars /\ UNCHANGED console_ret /\ UNCHANGED uiVars /\ UNCHANGED rate_call

\* the map BanManager::new holds after loading the file and running
\* cleanup_expired (ban.rs:49-63); a missing file gives the empty map
LoadedMap(file) == IF file.kind = "missing" THEN EmptyMap ELSE Deserialize(file)
StartupMap(file, t) == WithoutExpired(LoadedMap(file), t)

\* The process exits with no call in progress and a new one starts against
\* the same file: BanManager::new.  A file that does not parse makes new()
\* return the error, and no manager exists.
Restart(io_ok) ==
    /\ disk.kind # "truncated"
    /\ bans' = StartupMap(disk, now)
    /\ IF expired_ips(LoadedMap(disk), now) # {}
       THEN /\ MayFail(io_ok)
            /\ disk' \in FileAfterWrite(disk, Serialize(bans'), io_ok)
            /\ unsaved' = ~io_ok
            /\ io_failures' = IF io_ok THEN io_failures ELSE io_failures + 1
       ELSE /\ io_ok
            /\ unsaved' = FALSE
            /\ UNCHANGED <<disk, io_failures>>
    /\ last_ret' = Ret("new", "-", {}, "ok")
    /\ UNCHANGED <<now, call>>
    /\ UNCHANGED hubVars /\ UNCHANGED rateVars /\ UNCHANGED bahnVars /\ UNCHANGED concVars /\ UNCHANGED threatVars /\ UNCHANGED console_ret /\ UNCHANGED uiVars /\ UNCHANGED rate_call

\* Duration::from_secs(m * 60) of BanDuration::Minutes(m)
MinutesToSecs(m) == m * 60
Durations == {MinutesToSecs(m) : m \in 0..MaxMinutes}

\* BanManager::new on a host without a ban-list file
InitBan ==
    /\ now = 0
    /\ bans = EmptyMap
    /\ disk = FileMissing
    /\ call = [t \in Callers |-> Idle]
    /\ last_ret = Ret("none", "-", {}, "none")
    /\ unsaved = FALSE
    /\ io_failures = 0

Init ==
    /\ InitBan
    /\ InitHub
    /\ InitRate
    /\ InitBahn
    /\ InitConc
    /\ InitThreat
    /\ InitConsole /\ InitUi

NextBan ==
    \/ Tick
    \/ \E ip \in IPs, reason \in Reasons, io_ok \in BOOLEAN : BanPermanent(ip, reason, io_ok)
    \/ \E ip \in IPs, d \in Durations, reason \in Reasons, io_ok \in BOOLEAN :
          BanTemporary(ip, d, reason, io_ok)
    \/ \E ip \in IPs, io_ok \in BOOLEAN : Unban(ip, io_ok)
    \/ \E io_ok \in BOOLEAN : CleanupExpired(io_ok)
    \/ \E io_ok \in BOOLEAN : Restart(io_ok)

SpecBan == Init /\ [][NextBan]_vars

(***************************************************************************)
(* Claims about the ban store, checked under SpecBan.                      *)
(***************************************************************************)
\* the store holds an entry for ip that never expires or expires after now
HoldsUnexpired(ip) ==
    /\ ip \in DOMAIN bans
    /\ \/ bans[ip].expires_at = {}
       \/ \E e \in bans[ip].expires_at : e > now

\* C5: for every sequence of ban_permanent, ban_temporary, unban and
\* cleanup_expired calls and every passage of time, is_banned(ip) is true iff
\* the store holds an entry for ip whose expires_at is none or later than now;
\* the entry of the ban that returned last is the one the store holds for its
\* IP (a second ban replaces the first); ban_count() is the number of such
\* entries.
C5_IsBannedIffUnexpiredEntry ==
    /\ \A ip \in IPs : is_banned(ip) <=> HoldsUnexpired(ip)
    /\ ban_count = Cardinality({ip \in IPs : HoldsUnexpired(ip)})
    /\ last_ret.op \in {"ban_permanent", "ban_temporary"} =>
          /\ last_ret.ip \in DOMAIN bans
          /\ last_ret.arg = {bans[last_ret.ip]}
          /\ check_ban(last_ret.ip) \subseteq last_ret.arg

\* a ban of an IP that was already banned with another entry has returned,
\* and the older ban of the other IP is still there
C5_Witness ==
    /\ last_ret.op = "ban_permanent"
    /\ last_ret.res = "ok"
    /\ is_banned(last_ret.ip)
    /\ disk.kind = "json"
    /\ ban_count = 2
    /\ \E ip \in IPs : ip # last_ret.ip /\ bans[ip].expires_at # {}

\* C6: a temporary ban whose expiry has passed satisfies neither is_banned
\* nor check_ban, and cleanup_expired removes exactly the entries expired at
\* the time of the call and leaves every other entry as it was.
C6_ExpiredNotBanned ==
    \A ip \in DOMAIN bans :
        (bans[ip].expires_at # {} /\ \A e \in bans[ip].expires_at : e <= now)
            => (~is_banned(ip) /\ check_ban(ip) = {})

C6_CleanupExact ==
    \A io_ok \in BOOLEAN :
        CleanupExpired(io_ok) =>
            /\ DOMAIN bans' = {ip \in DOMAIN bans :
                                  \/ bans[ip].expires_at = {}
                                  \/ \E e \in bans[ip].expires_at : now < e}
            /\ \A ip \in DOMAIN bans' : bans'[ip] = bans[ip]

C6_ExpiredAndCleanup == []C6_ExpiredNotBanned /\ [][C6_CleanupExact]_vars

\* cleanup_expired has dropped an expired entry and kept an active one
C6_Witness ==
    /\ last_ret.op = "cleanup_expired"
    /\ last_ret.arg # {}
    /\ \E ip \in DOMAIN bans : is_banned(ip) /\ bans[ip].expires_at # {}

\* C7: as long as no write of the file has failed since the last one that
\* succeeded, a new BanManager built from the file (load, then
\* cleanup_expired) holds the same active entries as the running one, entry
\* by entry; a missing file gives the empty store.
C7_RoundTrip ==
    /\ ~unsaved =>
          /\ disk.kind # "truncated"
          /\ get_all_bans_in(StartupMap(disk, now), now) = get_all_bans_in(bans, now)
          /\ \A ip \in IPs : check_ban_in(StartupMap(disk, now), ip, now) = check_ban(ip)
    /\ disk.kind = "missing" => StartupMap(disk, now) = EmptyMap

\* a new process has started against a file holding a permanent and a
\* temporary ban and reports both
C7_Witness ==
    /\ last_ret.op = "new"
    /\ \E ip \in IPs : is_banned(ip) /\ bans[ip].expires_at = {}
    /\ \E ip \in IPs : is_banned(ip) /\ bans[ip].expires_at # {}

\* C9: when the write of the file fails in ban_permanent, ban_temporary or
\* unban, the call returns the error and the map holds the mutation: the
\* entry is there (or gone, for unban) and is_banned answers from it.
C9_ErrorKeepsMutation ==
    last_ret.res = "err" =>
        /\ last_ret.op \in {"ban_permanent", "ban_temporary", "unban"}
        /\ last_ret.op \in {"ban_permanent", "ban_temporary"} =>
              /\ last_ret.ip \in DOMAIN bans
              /\ last_ret.arg = {bans[last_ret.ip]}
              /\ is_banned(last_ret.ip) = is_active(bans[last_ret.ip], now)
        /\ last_ret.op = "ban_permanent" => is_banned(last_ret.ip)
        /\ last_ret.op = "unban" =>
              /\ last_ret.ip \notin DOMAIN bans
              /\ ~is_banned(last_ret.ip)

\* a permanent ban has returned an error, the IP is banned in memory and the
\* file does not hold it
C9_Witness ==
    /\ last_ret.res = "err"
    /\ last_ret.op = "ban_permanent"
    /\ is_banned(last_ret.ip)
    /\ disk.kind = "json"
    /\ last_ret.ip \notin DOMAIN disk.bans

(***************************************************************************)
(* The ban store with concurrent callers (SpecBanConc).  A mutating method *)
(* takes the write lock for the map update alone (ban.rs:77-80, 103-106,   *)
(* 114-117, 148-161) and then calls save(), which holds a read lock while  *)
(* it serializes the map and writes the file (ban.rs:185-190).  A caller   *)
(* is at "idle", at "save" (the map is updated, save() not yet entered) or *)
(* at "write" (inside save(), holding the read lock, the JSON built).      *)
(***************************************************************************)
InCall(pc, op, json) == [pc |-> pc, op |-> op, json |-> json]

\* a save that does not wait for the writer
WriteLockIgnored == TRUE

\* the write lock can be taken: no caller holds the read lock of save()
WriteLockFree == \A u \in Callers : call[u].pc # "write"

\* ban_permanent up to the release of the write lock (ban.rs:69-80)
BanPermanentInsert(t, ip, reason) ==
    /\ call[t].pc = "idle"
    /\ WriteLockFree
    /\ bans' = MapInsert(bans, ip, PermanentEntry(ip, reason, now))
    /\ call' = [call EXCEPT ![t] = InCall("save", "ban_permanent", FileMissing)]
    /\ UNCHANGED <<now, disk, last_ret, unsaved, io_failures>>
    /\ UNCHANGED hubVars /\ UNCHANGED rateVars /\ UNCHANGED bahnVars /\ UNCHANGED concVars /\ UNCHANGED threatVars /\ UNCHANGED console_ret /\ UNCHANGED uiVars /\ UNCHANGED rate_call

\* ban_temporary up to the release of the write lock (ban.rs:87-106)
BanTemporaryInsert(t, ip, duration, reason) ==
    /\ call[t].pc = "idle"
    /\ WriteLockFree
    /\ bans' = MapInsert(bans, ip, TemporaryEntry(ip, duration, reason, now))
    /\ call' = [call EXCEPT ![t] = InCall("save", "ban_temporary", FileMissing)]
    /\ UNCHANGED <<now, disk, last_ret, unsaved, io_failures>>
    /\ UNCHANGED hubVars /\ UNCHANGED rateVars /\ UNCHANGED bahnVars /\ UNCHANGED concVars /\ UNCHANGED threatVars /\ UNCHANGED console_ret /\ UNCHANGED uiVars /\ UNCHANGED rate_call

\* unban up to the release of the write lock; it returns Ok(false) at once
\* when nothing was removed (ban.rs:113-123)
UnbanRemove(t, ip) ==
    /\ call[t].pc = "idle"
    /\ WriteLockFree
    /\ bans' = MapRemove(bans, ip)
    /\ IF ip \in DOMAIN bans
       THEN /\ call' = [call EXCEPT ![t] = InCall("save", "unban", FileMissing)]
            /\ UNCHANGED last_ret
       ELSE /\ last_ret' = Ret("unban", "-", {}, "ok_false")
            /\ UNCHANGED call
    /\ UNCHANGED <<now, disk, unsaved, io_failures>>
    /\ UNCHANGED hubVars /\ UNCHANGED rateVars /\ UNCHANGED bahnVars /\ UNCHANGED concVars /\ UNCHANGED threatVars /\ UNCHANGED console_ret /\ UNCHANGED uiVars /\ UNCHANGED rate_call

\* cleanup_expired up to the release of the write lock; it returns at once
\* when nothing was removed (ban.rs:145-166)
CleanupRemove(t) ==
    /\ call[t].pc = "idle"
    /\ WriteLockFree
    /\ bans' = WithoutExpired(bans, now)
    /\ IF expired_ips(bans, now) # {}
       THEN /\ call' = [call EXCEPT ![t] = InCall("save", "cleanup_expired", FileMissing)]
            /\ UNCHANGED last_ret
       ELSE /\ last_ret' = Ret("cleanup_expired", "-", {}, "unit")
            /\ UNCHANGED call
    /\ UNCHANGED <<now, disk, unsaved, io_failures>>
    /\ UNCHANGED hubVars /\ UNCHANGED rateVars /\ UNCHANGED bahnVars /\ UNCHANGED concVars /\ UNCHANGED threatVars /\ UNCHANGED console_ret /\ UNCHANGED uiVars /\ UNCHANGED rate_call

\* save() takes the read lock and serializes the map (ban.rs:186-187)
SaveLock(t) ==
    /\ call[t].pc = "save"
    /\ call' = [call EXCEPT ![t] = InCall("write", call[t].op, Serialize(bans))]
    /\ UNCHANGED <<now, bans, disk, last_ret, unsaved, io_failures>>
    /\ UNCHANGED hubVars /\ UNCHANGED rateVars /\ UNCHANGED bahnVars /\ UNCHANGED concVars /\ UNCHANGED threatVars /\ UNCHANGED console_ret /\ UNCHANGED uiVars /\ UNCHANGED rate_call

\* save() writes the file and releases the read lock, and the method
\* returns (ban.rs:188-189, 82-83, 108-109, 119-123, 163-165)
SaveWrite(t, io_ok) ==
    /\ call[t].pc = "write"
    /\ MayFail(io_ok)
    /\ disk' \in FileAfterWrite(disk, call[t].json, io_ok)
    /\ unsaved' = ~io_ok
    /\ io_failures' = IF io_ok THEN io_failures ELSE io_failures + 1
    /\ last_ret' = Ret(call[t].op, "-", {}, ReturnOf(call[t].op, io_ok))
    /\ call' = [call EXCEPT ![t] = Idle]
    /\ UNCHANGED <<now, bans>>
    /\ UNCHANGED hubVars /\ UNCHANGED rateVars /\ UNCHANGED bahnVars /\ UNCHANGED concVars /\ UNCHANGED threatVars /\ UNCHANGED console_ret /\ UNCHANGED uiVars /\ UNCHANGED rate_call

\* the callers of this specification all give the same reason and call at
\* clock value 0: what tells their entries apart is the IP and the expiry
ConcReason == "spam"

NextBanConc ==
    \/ \E t \in Callers, ip \in IPs : BanPermanentInsert(t, ip, ConcReason)
    \/ \E t \in Callers, ip \in IPs, d \in Durations : BanTemporaryInsert(t, ip, d, ConcReason)
    \/ \E t \in Callers, ip \in IPs : UnbanRemove(t, ip)
    \/ \E t \in Callers : CleanupRemove(t)
    \/ \E t \in Callers : SaveLock(t)
    \/ \E t \in Callers, io_ok \in BOOLEAN : SaveWrite(t, io_ok)

SpecBanConc == Init /\ [][NextBanConc]_vars

\* C8: whenever the call that returned last is a ban_permanent,
\* ban_temporary or unban that returned success, and no mutating call is in
\* progress, the ban-list file is the serialization of the in-memory map, in
\* every interleaving of the callers.
C8_FileIsSerializedMap ==
    (/\ last_ret.res = "ok"
     /\ \A t \in Callers : call[t].pc = "idle")
        => disk = Serialize(bans)

\* after an earlier failed write, both IPs are banned, the last call
\* returned success and the file holds both entries
C8_Witness ==
    /\ last_ret.res = "ok"
    /\ last_ret.op = "ban_temporary"
    /\ \A t \in Callers : call[t].pc = "idle"
    /\ io_failures = 1
    /\ DOMAIN bans = IPs
    /\ disk = Serialize(bans)

(***************************************************************************)
(* The hub, the sessions and the operator (Spec).  A hub method runs as    *)
(* one step.  pty_request is two steps, its ban check and its add_client:  *)
(* sessions run on the runtime's worker threads while the operator's       *)
(* commands run on the console task, so a command can run between the two. *)
(* The handler's own channel.data() writes are taken to succeed, and so    *)
(* are the writes of the ban-list file; time does not pass.                *)
(***************************************************************************)
max_clients == 2

\* a step that calls no mutating method of the ban store
NoRet == Ret("none", "-", {}, "none")
NoStoreCall ==
    /\ last_ret' = NoRet
    /\ UNCHANGED <<now, bans, disk, call, unsaved, io_failures>>

HubReason == "No reason provided"

Permanent == [unit |-> "permanent", n |-> 0]
Minutes(m) == [unit |-> "m", n |-> m]

\* BanDuration::to_duration, an Option<Duration> in seconds
to_duration(duration) ==
    CASE duration.unit = "permanent" -> {}
      [] duration.unit = "m" -> {duration.n * 60}
      [] duration.unit = "h" -> {duration.n * 3600}
      [] duration.unit = "d" -> {duration.n * 86400}

BanDurations == {Permanent} \cup {Minutes(m) : m \in 0..MaxMinutes}

\* what an operator may type as a target
Targets == Nicks \cup IPs \cup {UuidOf(n) : n \in 1..MaxConnections}

\* Uuid::parse_str and str::parse::<IpAddr>, as Options
ParseUuid(target) ==
    IF \E n \in 1..MaxConnections : target = UuidOf(n) THEN {target} ELSE {}
ParseIp(target) == IF target \in IPs THEN {target} ELSE {}

Receiver == [buf |-> << >>, lagged |-> FALSE]

\* one broadcast::Sender::send as a receiver sees it: the oldest event is
\* dropped and the receiver marked lagged once it holds the capacity
Push(rx, event) ==
    IF Len(rx.buf) < FanoutCapacity
    THEN [rx EXCEPT !.buf = Append(@, event)]
    ELSE [buf |-> Append(Tail(rx.buf), event), lagged |-> TRUE]

RECURSIVE PushAll(_, _)
PushAll(rx, events) ==
    IF events = << >> THEN rx ELSE PushAll(Push(rx, Head(events)), Tail(events))

\* chat_tx.send of each of events, in order, to every subscribed receiver
chat_tx_send(w, events) ==
    [s \in Sessions |-> [i \in 1..Len(w[s]) |-> PushAll(w[s][i], events)]]

RemoveAt(seq, i) == SubSeq(seq, 1, i - 1) \o SubSeq(seq, i + 1, Len(seq))

\* every order in which a DashMap iteration may yield the set S
Orders(S) ==
    {seq \in [1..Cardinality(S) -> S] : \A c \in S : \E i \in DOMAIN seq : seq[i] = c}

get_client(cs, client_id) == {c \in cs : c.id = client_id}
get_client_by_nickname(cs, nickname) == {c \in cs : c.nickname = nickname}
is_nickname_available(cs, nickname) == ~ \E c \in cs : c.nickname = nickname

\* a resolution that takes any live client for the target
resolve_target_any_client(cs, target) ==
    IF cs # {}
    THEN {[ok |-> TRUE, client |-> c] : c \in cs}
    ELSE {[ok |-> FALSE, err |-> "No client found matching"]}

\* ChatServer::resolve_target: the set of results the call may return
\* (iteration order decides among clients of one IP)
resolve_target(cs, target) ==
    IF ParseUuid(target) # {} /\ get_client(cs, target) # {}
    THEN {[ok |-> TRUE, client |-> c] : c \in get_client(cs, target)}
    ELSE IF ParseIp(target) # {}
    THEN IF \E c \in cs : c.ip = target
         THEN {[ok |-> TRUE, client |-> c] : c \in {d \in cs : d.ip = target}}
         ELSE {[ok |-> FALSE, err |-> "No client connected from IP"]}
    ELSE IF get_client_by_nickname(cs, target) # {}
    THEN {[ok |-> TRUE, client |-> c] : c \in get_client_by_nickname(cs, target)}
    ELSE {[ok |-> FALSE, err |-> "No client found matching"]}

\* ChatServer::resolve_target_to_ip
resolve_target_to_ip(cs, target) ==
    IF ParseIp(target) # {}
    THEN {[ok |-> TRUE, ip |-> target]}
    ELSE {IF r.ok THEN [ok |-> TRUE, ip |-> r.client.ip] ELSE r : r \in resolve_target(cs, target)}

\* the events of remove_client for each client of order, in that order
LeftNotices(order) == [i \in DOMAIN order |-> NoticeEvent("Left", order[i].nickname, order[i].ip)]
\* remove_client sending its notices to the operator log as well
LeftLogsAsNotices(order) ==
    [i \in DOMAIN order |-> NoticeEvent("Left", order[i].nickname, order[i].ip)]

LeftLogs(order) ==
    [i \in DOMAIN order |-> SystemEvent("Info", "left", {order[i].ip}, {})]

\* No channel holds more than MaxBacklog unread events.  The dashboard and
\* the writer tasks only read; a step of a session or of the operator is
\* taken once they have caught up to this backlog.
Quiet ==
    /\ Len(system_rx) <= MaxBacklog
    /\ \A s \in Sessions : \A i \in DOMAIN writers[s] : Len(writers[s][i].buf) <= MaxBacklog

\* ChatServer::log_system
log_system(level, message, ip) ==
    system_rx' = Append(system_rx, SystemEvent(level, message, ip, {}))

\* add_client without its nickname check
add_client_any_nickname(cs, nickname) ==
    IF Cardinality(cs) >= max_clients THEN "Server full" ELSE "ok"

\* the Result of ChatServer::add_client on the registry cs
add_client_result(cs, nickname) ==
    IF Cardinality(cs) >= max_clients THEN "Server full"
    ELSE IF ~is_nickname_available(cs, nickname) THEN "Nickname already taken"
    ELSE "ok"

\* a remove_client that sends the notice and the log whether or not the
\* registry held the client
remove_client_every_time(s) ==
    /\ clients' = {c \in clients : c.id \notin sess[s].client_id}
    /\ \E nickname \in sess[s].nickname, ip \in sess[s].ip :
          /\ writers' = chat_tx_send(writers, <<NoticeEvent("Left", nickname, ip)>>)
          /\ system_rx' = Append(system_rx, SystemEvent("Info", "left", {ip}, {}))
    /\ hub_ret' = Step("remove_client", clients' # clients, "-", "-", {})

\* ChatServer::remove_client called by the session s (channel_eof and
\* channel_close): nothing happens when the client is no longer registered
remove_client(s) ==
    LET gone == {c \in clients : c.id \in sess[s].client_id}
    IN  /\ clients' = clients \ gone
        /\ \E order \in Orders(gone) :
              /\ writers' = chat_tx_send(writers, LeftNotices(order))
              /\ system_rx' = system_rx \o LeftLogs(order)
        /\ hub_ret' = Step("remove_client", gone # {}, "-", "-", {})

\* ChatServer::kick_client
KickClient(target) ==
    /\ stats.total_kicks < MaxKicks
    /\ Quiet
    /\ \E r \in resolve_target(clients, target) :
          IF r.ok
          THEN /\ clients' = clients \ {r.client}
               /\ writers' = chat_tx_send(writers, LeftNotices(<<r.client>>))
               /\ system_rx' = system_rx \o LeftLogs(<<r.client>>) \o
                     <<SystemEvent("Warning", "Kicked", {r.client.ip},
                                   {[action |-> "Kick", nickname |-> r.client.nickname,
                                     ip |-> r.client.ip]})>>
               /\ stats' = [stats EXCEPT !.total_kicks = @ + 1]
               /\ hub_ret' = Step("kick", TRUE, r.client.ip, "-", {})
          ELSE /\ UNCHANGED <<clients, writers, system_rx, stats>>
               /\ hub_ret' = Step("kick", FALSE, "-", "-", {})
    /\ NoStoreCall /\ UNCHANGED rateVars /\ UNCHANGED bahnVars /\ UNCHANGED concVars /\ UNCHANGED threatVars /\ UNCHANGED console_ret /\ UNCHANGED uiVars /\ UNCHANGED rate_call /\ UNCHANGED <<next_id, sess>>

\* the SystemLog ban_client sends once the store has accepted the ban
BanLog(ip, duration) ==
    IF to_duration(duration) = {}
    THEN SystemEvent("Error", "Banned permanently", {ip},
                     {[action |-> "Ban", ip |-> ip, reason |-> HubReason]})
    ELSE SystemEvent("Warning", "Temp banned", {ip},
                     {[action |-> "TempBan", ip |-> ip, duration |-> to_duration(duration)]})

\* ChatServer::ban_client: an error of the store returns at once (the `?`),
\* after the store has changed its map
BanClient(target, duration, io_ok) ==
    /\ stats.total_bans < MaxBans
    /\ Quiet
    /\ \E r \in resolve_target_to_ip(clients, target) :
          IF ~r.ok
          THEN /\ last_ret' = NoRet
               /\ UNCHANGED <<bans, disk, unsaved, io_failures>>
               /\ UNCHANGED <<clients, writers, system_rx, stats>>
               /\ hub_ret' = Step("ban", FALSE, "-", "-", {})
          ELSE /\ IF to_duration(duration) = {}
                  THEN ban_permanent(r.ip, HubReason, io_ok)
                  ELSE \E dur \in to_duration(duration) :
                          ban_temporary(r.ip, dur, HubReason, io_ok)
               /\ IF io_ok
                  THEN \E order \in Orders({c \in clients : c.ip = r.ip}) :
                          /\ system_rx' = Append(system_rx, BanLog(r.ip, duration)) \o LeftLogs(order)
                          /\ stats' = [stats EXCEPT !.total_bans = @ + 1]
                          /\ clients' = clients \ {c \in clients : c.ip = r.ip}
                          /\ writers' = chat_tx_send(writers, LeftNotices(order))
                          /\ hub_ret' = Step("ban", TRUE, r.ip, duration, {})
                  ELSE /\ UNCHANGED <<clients, writers, system_rx, stats>>
                       /\ hub_ret' = Step("ban", FALSE, r.ip, duration, {})
    /\ UNCHANGED <<now, call, next_id, sess>> /\ UNCHANGED rateVars /\ UNCHANGED bahnVars /\ UNCHANGED concVars /\ UNCHANGED threatVars /\ UNCHANGED console_ret /\ UNCHANGED uiVars /\ UNCHANGED rate_call

\* ChatServer::unban_client
UnbanClient(ip_str, io_ok) ==
    /\ Quiet
    /\ IF ParseIp(ip_str) = {}
       THEN /\ last_ret' = NoRet
            /\ UNCHANGED <<bans, disk, unsaved, io_failures, system_rx>>
            /\ hub_ret' = Step("unban", FALSE, "-", "Invalid IP address", {})
       ELSE \E ip \in ParseIp(ip_str) :
               /\ unban(ip, io_ok)
               /\ IF ip \notin DOMAIN bans
                  THEN /\ UNCHANGED system_rx
                       /\ hub_ret' = Step("unban", FALSE, "-", "is not banned", {})
                  ELSE IF ~io_ok
                  THEN /\ UNCHANGED system_rx
                       /\ hub_ret' = Step("unban", FALSE, "-", "Failed to unban", {})
                  ELSE /\ system_rx' = Append(system_rx,
                              SystemEvent("Info", "Unbanned", {ip},
                                          {[action |-> "Unban", ip |-> ip]}))
                       /\ hub_ret' = Step("unban", TRUE, ip, "-", {})
    /\ UNCHANGED <<now, call, clients, next_id, stats, sess, writers>> /\ UNCHANGED rateVars /\ UNCHANGED bahnVars /\ UNCHANGED concVars /\ UNCHANGED threatVars /\ UNCHANGED console_ret /\ UNCHANGED uiVars /\ UNCHANGED rate_call

\* TuiConsole::run's loop: `while let Ok(log) = self.log_rx.try_recv()`
DrainLogs ==
    /\ system_rx # << >>
    /\ system_rx' = << >>
    /\ hub_ret' = NoStep
    /\ NoStoreCall /\ UNCHANGED rateVars /\ UNCHANGED bahnVars /\ UNCHANGED concVars /\ UNCHANGED threatVars /\ UNCHANGED console_ret /\ UNCHANGED uiVars /\ UNCHANGED rate_call /\ UNCHANGED <<clients, next_id, stats, sess, writers>>

\* what a session handler or a writer task wrote to its SSH channel
Written(fmt, nickname, text) == [fmt |-> fmt, nickname |-> nickname, text |-> text]

\* the match of spawn_message_listener: the line written for an event, an
\* Option that is None for the System variant (`continue`)
Formatted(event) ==
    CASE event.type = "Chat" -> {Written("chat", event.nickname, event.text)}
      [] event.type = "Notice" ->
            {Written("notice", event.nickname,
                     IF event.kind = "Joined" THEN "joined" ELSE "left")}
      [] event.type = "System" -> {}

\* the user names of the sessions of SpecOperator: auth_* takes any SSH user
\* name, one that reads like an address too
OperatorUsers == {"alice", "10.0.0.2"}

\* Addresses and user names are interchangeable, so the first connection is
\* taken to come from the first address and to use the first name.
PeerIps(s) == IF s = 1 THEN {"10.0.0.1"} ELSE IPs
Users(s) == IF s = 1 THEN {"alice"} ELSE Nicks \cup OperatorUsers

\* the channels map of the handler holds the session's channel
HasChannel(s) == sess[s].st \in {"open", "checked"}

\* the line the acceptor writes to the socket before it shuts it down
Rejection(reason) == {Written("rejected", "-", reason)}

\* one pass of SshServer::run's accept loop for a connection from ip; geo_ok
\* and threat_ok are the answers of the GeoIP filter and of the threat list
Accept(s, ip, geo_ok, threat_ok) ==
    /\ sess[s].st = "none"
    /\ \A r \in Sessions : r < s => sess[r].st # "none"
    /\ Quiet
    /\ IF check_ban(ip) # {}
       THEN /\ log_system("Warning", "Rejected banned IP", {ip})
            /\ hub_ret' = Step("accept", FALSE, ip, "banned", Rejection("banned"))
            /\ UNCHANGED sess
       ELSE IF ~geo_ok
       THEN /\ log_system("Warning", "Rejected IP due to GeoIP filter", {ip})
            /\ hub_ret' = Step("accept", FALSE, ip, "geoip", Rejection("geoip"))
            /\ UNCHANGED sess
       ELSE IF ~threat_ok
       THEN /\ log_system("Warning", "Rejected IP due to threat list", {ip})
            /\ hub_ret' = Step("accept", FALSE, ip, "threat", Rejection("threat"))
            /\ UNCHANGED sess
       ELSE /\ ip \in PeerIps(s)
            /\ sess' = [sess EXCEPT ![s] = NewHandler(ip)]
            /\ hub_ret' = Step("accept", TRUE, ip, "-", {})
            /\ UNCHANGED system_rx
    /\ NoStoreCall /\ UNCHANGED rateVars /\ UNCHANGED bahnVars /\ UNCHANGED concVars /\ UNCHANGED threatVars /\ UNCHANGED console_ret /\ UNCHANGED uiVars /\ UNCHANGED rate_call /\ UNCHANGED <<clients, next_id, stats, writers>>

\* the authentication methods the handler answers
Methods == {"none", "password", "publickey"}

\* auth_none, auth_password and auth_publickey: the three have one body, and
\* none reads the password or the key
Auth(s, method, user) ==
    /\ sess[s].st = "new"
    /\ Quiet
    /\ IF \E ip \in sess[s].ip : is_banned(ip)
       THEN /\ hub_ret' = Step("auth", FALSE, "-", method, {})
            /\ UNCHANGED sess
       ELSE /\ user \in Users(s)
            /\ sess' = [sess EXCEPT ![s].nickname = {user}, ![s].st = "authed"]
            /\ hub_ret' = Step("auth", TRUE, "-", method, {})
    /\ NoStoreCall /\ UNCHANGED rateVars /\ UNCHANGED bahnVars /\ UNCHANGED concVars /\ UNCHANGED threatVars /\ UNCHANGED console_ret /\ UNCHANGED uiVars /\ UNCHANGED rate_call /\ UNCHANGED <<clients, next_id, stats, system_rx, writers>>

\* channel_open_session
ChannelOpenSession(s) ==
    /\ sess[s].st = "authed"
    /\ Quiet
    /\ sess' = [sess EXCEPT ![s].st = "open"]
    /\ hub_ret' = NoStep
    /\ NoStoreCall /\ UNCHANGED rateVars /\ UNCHANGED bahnVars /\ UNCHANGED concVars /\ UNCHANGED threatVars /\ UNCHANGED console_ret /\ UNCHANGED uiVars /\ UNCHANGED rate_call /\ UNCHANGED <<clients, next_id, stats, system_rx, writers>>

\* pty_request up to its ban check (ssh/server.rs:291-298)
PtyCheckBan(s) ==
    /\ sess[s].st = "open"
    /\ sess[s].nickname # {} /\ sess[s].ip # {}
    /\ Quiet
    /\ IF \E ip \in sess[s].ip : is_banned(ip)
       THEN /\ hub_ret' = Step("pty_request", FALSE, "-", "banned",
                                {Written("banned", "-", "-")})
            /\ UNCHANGED sess
       ELSE /\ sess' = [sess EXCEPT ![s].st = "checked"]
            /\ hub_ret' = NoStep
    /\ NoStoreCall /\ UNCHANGED rateVars /\ UNCHANGED bahnVars /\ UNCHANGED concVars /\ UNCHANGED threatVars /\ UNCHANGED console_ret /\ UNCHANGED uiVars /\ UNCHANGED rate_call /\ UNCHANGED <<clients, next_id, stats, system_rx, writers>>

\* pty_request from its add_client on (ssh/server.rs:300-321), with the
\* whole of ChatServer::add_client
PtyAddClient(s) ==
    /\ sess[s].st = "checked"
    /\ stats.total_connections < MaxConnections
    /\ Quiet
    /\ \E nickname \in sess[s].nickname, ip \in sess[s].ip :
          LET res == add_client_result(clients, nickname)
              id == UuidOf(next_id)
          IN  IF res = "ok"
              THEN /\ clients' = clients \cup {Client(id, nickname, ip)}
                   /\ next_id' = next_id + 1
                   /\ stats' = [stats EXCEPT !.total_connections = @ + 1]
                   /\ system_rx' = Append(system_rx, SystemEvent("Info", "joined", {ip}, {}))
                   /\ writers' = [chat_tx_send(writers, <<NoticeEvent("Joined", nickname, ip)>>)
                                     EXCEPT ![s] = Append(@, Receiver)]
                   /\ sess' = [sess EXCEPT ![s].client_id = {id}, ![s].st = "open"]
                   /\ hub_ret' = Step("add_client", TRUE, ip, "-",
                                       {Written("welcome", nickname, "-")})
              ELSE /\ sess' = [sess EXCEPT ![s].st = "open"]
                   /\ hub_ret' = Step("add_client", FALSE, ip, "-",
                                       {Written("error", "-", res)})
                   /\ UNCHANGED <<clients, next_id, stats, system_rx, writers>>
    /\ NoStoreCall /\ UNCHANGED rateVars /\ UNCHANGED bahnVars /\ UNCHANGED concVars /\ UNCHANGED threatVars /\ UNCHANGED console_ret /\ UNCHANGED uiVars /\ UNCHANGED rate_call

\* data with a whole line: broadcast_chat of a non-empty line, then the echo
Data(s, line) ==
    /\ sess[s].st = "open"
    /\ sess[s].client_id # {}
    /\ stats.total_messages < MaxMessages
    /\ Quiet
    /\ IF line = ""
       THEN /\ hub_ret' = Step("data", TRUE, "-", "-", {Written("newline", "-", "-")})
            /\ UNCHANGED <<stats, writers>>
       ELSE IF \E c \in clients : c.id \in sess[s].client_id
       THEN \E c \in clients :
               /\ c.id \in sess[s].client_id
               /\ writers' = chat_tx_send(writers, <<ChatEvent(c.nickname, line, c.ip)>>)
               /\ stats' = [stats EXCEPT !.total_messages = @ + 1]
               /\ hub_ret' = Step("broadcast_chat", TRUE, "-", "-",
                                   {Written("newline", "-", "-")})
       ELSE /\ hub_ret' = Step("broadcast_chat", FALSE, "-", "Client not found",
                                {Written("newline", "-", "-")})
            /\ UNCHANGED <<stats, writers>>
    /\ NoStoreCall /\ UNCHANGED rateVars /\ UNCHANGED bahnVars /\ UNCHANGED concVars /\ UNCHANGED threatVars /\ UNCHANGED console_ret /\ UNCHANGED uiVars /\ UNCHANGED rate_call /\ UNCHANGED <<clients, next_id, system_rx, sess>>

\* channel_eof
ChannelEof(s) ==
    /\ HasChannel(s) /\ sess[s].st = "open"
    /\ Quiet
    /\ remove_client(s)
    /\ NoStoreCall /\ UNCHANGED rateVars /\ UNCHANGED bahnVars /\ UNCHANGED concVars /\ UNCHANGED threatVars /\ UNCHANGED console_ret /\ UNCHANGED uiVars /\ UNCHANGED rate_call /\ UNCHANGED <<next_id, stats, sess>>

\* channel_close
ChannelClose(s) ==
    /\ sess[s].st = "open"
    /\ Quiet
    /\ remove_client(s)
    /\ sess' = [sess EXCEPT ![s].st = "closed"]
    /\ NoStoreCall /\ UNCHANGED rateVars /\ UNCHANGED bahnVars /\ UNCHANGED concVars /\ UNCHANGED threatVars /\ UNCHANGED console_ret /\ UNCHANGED uiVars /\ UNCHANGED rate_call /\ UNCHANGED <<next_id, stats>>

\* one pass of the loop of a writer task of session s
WriterStep(s, i, write_ok) ==
    /\ i \in DOMAIN writers[s]
    /\ LET rx == writers[s][i]
       IN  IF rx.lagged
           THEN /\ write_ok
                /\ writers' = [writers EXCEPT ![s] = RemoveAt(@, i)]
                /\ hub_ret' = NoStep
           ELSE /\ rx.buf # << >>
                /\ IF Formatted(Head(rx.buf)) = {}
                   THEN /\ write_ok
                        /\ writers' = [writers EXCEPT ![s][i].buf = Tail(@)]
                        /\ hub_ret' = NoStep
                   ELSE IF HasChannel(s) /\ write_ok
                   THEN /\ writers' = [writers EXCEPT ![s][i].buf = Tail(@)]
                        /\ hub_ret' = Step("write", TRUE, "-", "-", Formatted(Head(rx.buf)))
                   ELSE /\ HasChannel(s) \/ write_ok
                        /\ writers' = [writers EXCEPT ![s] = RemoveAt(@, i)]
                        /\ hub_ret' = NoStep
    /\ MayFail(write_ok)
    /\ io_failures' = IF write_ok THEN io_failures ELSE io_failures + 1
    /\ last_ret' = NoRet
    /\ UNCHANGED <<now, bans, disk, call, unsaved>> /\ UNCHANGED rateVars /\ UNCHANGED bahnVars /\ UNCHANGED concVars /\ UNCHANGED threatVars /\ UNCHANGED console_ret /\ UNCHANGED uiVars /\ UNCHANGED rate_call
    /\ UNCHANGED <<clients, next_id, stats, system_rx, sess>>

Next ==
    \/ \E s \in Sessions, ip \in IPs, geo_ok \in BOOLEAN, threat_ok \in BOOLEAN :
          Accept(s, ip, geo_ok, threat_ok)
    \/ \E s \in Sessions, method \in Methods, user \in Nicks : Auth(s, method, user)
    \/ \E s \in Sessions : ChannelOpenSession(s)
    \/ \E s \in Sessions : PtyCheckBan(s)
    \/ \E s \in Sessions : PtyAddClient(s)
    \/ \E s \in Sessions, line \in Texts \cup {""} : Data(s, line)
    \/ \E s \in Sessions : ChannelEof(s)
    \/ \E s \in Sessions : ChannelClose(s)
    \/ \E s \in Sessions, i \in 1..MaxConnections, write_ok \in BOOLEAN : WriterStep(s, i, write_ok)
    \/ \E target \in Targets : KickClient(target)
    \/ \E target \in Targets, duration \in BanDurations : BanClient(target, duration, TRUE)
    \/ \E ip_str \in Targets : UnbanClient(ip_str, TRUE)
    \/ DrainLogs

Spec == Init /\ [][Next]_vars

(***************************************************************************)
(* Claims about the hub.                                                   *)
(***************************************************************************)
NoSharedNickname == \A c \in clients : \A d \in clients : c.nickname = d.nickname => c = d

RejectedAddLeavesRegistry ==
    \A s \in Sessions :
        (PtyAddClient(s) /\ \E c \in clients : c.nickname \in sess[s].nickname)
            => (hub_ret'.op = "add_client" /\ ~hub_ret'.ok /\ clients' = clients)

\* C1: over every sequence of add_client, remove_client, kick and ban, no two
\* clients of the live registry share a nickname, and an add_client for a
\* nickname a live client holds is rejected and leaves the registry as it was.
C1_UniqueNicknames == []NoSharedNickname /\ [][RejectedAddLeavesRegistry]_vars

\* an add_client was just rejected for its nickname, after a ban
C1_Witness ==
    /\ hub_ret.op = "add_client"
    /\ ~hub_ret.ok
    /\ Written("error", "-", "Nickname already taken") \in hub_ret.wrote
    /\ clients # {}
    /\ stats.total_bans = 1

\* C2: the operator log channel carries System events only, the fanout
\* channel hands Chat and Notice events only to the writer tasks, and a line
\* a writer task writes to an SSH channel is the line of a Chat or a Notice.
C2_ChannelSeparation ==
    /\ \A k \in DOMAIN system_rx : system_rx[k].type = "System"
    /\ \A s \in Sessions : \A i \in DOMAIN writers[s] : \A k \in DOMAIN writers[s][i].buf :
          writers[s][i].buf[k].type \in {"Chat", "Notice"}
    /\ hub_ret.op = "write" => \A w \in hub_ret.wrote : w.fmt \in {"chat", "notice"}

\* both channels hold an event, after a chat line was broadcast
C2_Witness ==
    /\ system_rx # << >>
    /\ \E s \in Sessions : \E i \in DOMAIN writers[s] : writers[s][i].buf # << >>
    /\ stats.total_messages = 1

BanSucceeded == hub_ret.op = "ban" /\ hub_ret.ok

\* C3: when ban_client returns success for an IP, no client of the live
\* registry has that IP, is_banned(ip) is true, and total_bans grew by one.
C3_BanPostState ==
    /\ [](BanSucceeded =>
            /\ \A c \in clients : c.ip # hub_ret.ip
            /\ is_banned(hub_ret.ip))
    /\ [][(hub_ret'.op = "ban" /\ hub_ret'.ok) => stats'.total_bans = stats.total_bans + 1]_vars

\* the session a client was registered by
SessionOf(c) == {s \in Sessions : c.id \in sess[s].client_id}

\* C4: a client is in the live registry only if its session passed the
\* admission checks and its IP has no active ban.
C4_LiveClientAdmittedNotBanned ==
    \A c \in clients :
        /\ \E s \in SessionOf(c) : sess[s].st # "none"
        /\ ~is_banned(c.ip)

\* client c is what target names: its id, its IP or its nickname
Matches(c, target) == c.id = target \/ c.ip = target \/ c.nickname = target

\* the Kick log of client c
IsKickLog(event, c) ==
    /\ event.type = "System"
    /\ event.level = "Warning"
    /\ event.action = {[action |-> "Kick", nickname |-> c.nickname, ip |-> c.ip]}

\* C14: a kick that succeeds removes exactly one client, one that the
\* target names, adds one to total_kicks and sends last to the operator log
\* a Warning with Kick{nickname, ip} of that client; a kick whose target
\* names no live client fails, and a kick that fails leaves the registry,
\* the stats, the operator log and the fanout as they were.
C14_Kick ==
    [][\A target \in Targets :
          (hub_ret'.op = "kick" /\ KickClient(target)) =>
             /\ (~ \E c \in clients : Matches(c, target)) => ~hub_ret'.ok
             /\ hub_ret'.ok =>
                   /\ \E c \in clients :
                         /\ Matches(c, target)
                         /\ clients' = clients \ {c}
                         /\ system_rx' # << >>
                         /\ IsKickLog(system_rx'[Len(system_rx')], c)
                   /\ stats' = [stats EXCEPT !.total_kicks = @ + 1]
             /\ ~hub_ret'.ok =>
                   /\ clients' = clients
                   /\ stats' = stats
                   /\ system_rx' = system_rx
                   /\ writers' = writers]_vars

\* a kick has just removed one of two live clients
C14_Witness ==
    /\ hub_ret.op = "kick"
    /\ hub_ret.ok
    /\ stats.total_kicks = 1
    /\ Cardinality(clients) = 1
    /\ \E k \in DOMAIN system_rx : \E c \in clients :
          system_rx[k].type = "System" /\ system_rx[k].level = "Warning"
              /\ \E a \in system_rx[k].action : a.action = "Kick" /\ a.nickname # c.nickname

\* C15: a connection is handed to a session handler only after the four
\* admission checks have passed in their order: the ban store (no active
\* ban at the time), the GeoIP filter, the threat list and AutoBahn's
\* check_connection, which counts the attempt of the IP; a connection the
\* GeoIP filter or the threat list rejects has passed the ban store.
C15_AdmissionOrder ==
    hub_ret.op = "accept" =>
        /\ hub_ret.arg \in {"geoip", "threat"} => check_ban(hub_ret.ip) = {}
        /\ hub_ret.ok =>
              /\ check_ban(hub_ret.ip) = {}
              /\ hub_ret.ip \in DOMAIN violations
              /\ violations[hub_ret.ip].connection_attempts >= 1

\* C16: a connection accepted from an IP with an active ban gets no session
\* handler: the acceptor writes the reason line, sends one Warning to the
\* operator log and nothing to the fanout, and leaves the registry alone.
C16_BannedIpRejected ==
    [][\A s \in Sessions, ip \in IPs, geo_ok \in BOOLEAN, threat_ok \in BOOLEAN :
          (hub_ret'.op = "accept" /\ is_banned(ip) /\ Accept(s, ip, geo_ok, threat_ok)) =>
             /\ ~hub_ret'.ok
             /\ sess' = sess
             /\ hub_ret'.wrote = Rejection("banned")
             /\ Len(system_rx') = Len(system_rx) + 1
             /\ system_rx'[Len(system_rx')].type = "System"
             /\ system_rx'[Len(system_rx')].level = "Warning"
             /\ system_rx'[Len(system_rx')].ip = {ip}
             /\ writers' = writers
             /\ clients' = clients]_vars

\* the acceptor has just turned away a connection from a banned IP, a
\* session of another connection being under way
C16_Witness ==
    /\ hub_ret.op = "accept"
    /\ ~hub_ret.ok
    /\ hub_ret.arg = "banned"
    /\ is_banned(hub_ret.ip)
    /\ \E s \in Sessions : sess[s].st # "none"

\* C17: each of the three auth methods rejects and leaves the nickname of
\* the session unset when the ban store has an active ban of the
\* connection's IP at that moment, and otherwise accepts and sets the
\* nickname to the user name.
C17_AuthRechecksBan ==
    [][\A s \in Sessions, method \in Methods, user \in Nicks :
          (hub_ret'.op = "auth" /\ Auth(s, method, user)) =>
             IF \E ip \in sess[s].ip : check_ban(ip) # {}
             THEN /\ ~hub_ret'.ok
                  /\ sess'[s].nickname = {}
             ELSE /\ hub_ret'.ok
                  /\ hub_ret'.arg = method
                  /\ sess'[s].nickname = {user}]_vars

\* a public-key authentication has just been rejected for a connection
\* that was admitted before its IP was banned
C17_Witness ==
    /\ hub_ret.op = "auth"
    /\ ~hub_ret.ok
    /\ hub_ret.arg = "publickey"
    /\ \E s \in Sessions :
          /\ sess[s].st = "new"
          /\ sess[s].nickname = {}
          /\ \E ip \in sess[s].ip : check_ban(ip) # {}

(***************************************************************************)
(* The operator's commands (SpecOperator): sessions connect and register,  *)
(* under names that may read like an address, and the operator kicks, bans *)
(* and unbans; the write of the ban-list file may fail at an unban.        *)
(***************************************************************************)
NextOperator ==
    \/ \E s \in Sessions, ip \in IPs, geo_ok \in BOOLEAN, threat_ok \in BOOLEAN :
          Accept(s, ip, geo_ok, threat_ok)
    \/ \E s \in Sessions, method \in Methods, user \in OperatorUsers : Auth(s, method, user)
    \/ \E s \in Sessions : ChannelOpenSession(s)
    \/ \E s \in Sessions : PtyCheckBan(s)
    \/ \E s \in Sessions : PtyAddClient(s)
    \/ \E target \in Targets : KickClient(target)
    \/ \E target \in Targets, duration \in BanDurations : BanClient(target, duration, TRUE)
    \/ \E ip_str \in Targets, io_ok \in BOOLEAN : UnbanClient(ip_str, io_ok)
    \/ \E s \in Sessions, i \in 1..MaxConnections : WriterStep(s, i, TRUE)
    \/ DrainLogs

SpecOperator == Init /\ [][NextOperator]_vars

\* the SystemLog of an unban
UnbanLog(ip) ==
    SystemEvent("Info", "Unbanned", {ip}, {[action |-> "Unban", ip |-> ip]})

\* C24 as stated: unban returns an error and changes nothing when the
\* string is no IP or the store holds no entry for it; when an entry is
\* removed it returns success, is_banned(ip) is false afterwards, and one
\* Info System event with action Unban{ip} goes to the operator log and
\* nothing to the fanout.
C24_UnbanRemovedIsSuccess ==
    [][\A ip_str \in Targets, io_ok \in BOOLEAN :
          (hub_ret'.op = "unban" /\ UnbanClient(ip_str, io_ok)) =>
              /\ (ParseIp(ip_str) = {} \/ ip_str \notin DOMAIN bans) =>
                    /\ ~hub_ret'.ok
                    /\ UNCHANGED <<bans, disk, system_rx, writers, clients, stats>>
              /\ (ip_str \in DOMAIN bans /\ ip_str \notin DOMAIN bans') =>
                    /\ hub_ret'.ok
                    /\ ~is_banned_in(bans', ip_str, now')
                    /\ system_rx' = Append(system_rx, UnbanLog(ip_str))
                    /\ writers' = writers]_vars

\* C24, amended: unban returns an error and changes nothing when the string
\* is no IP or the store holds no entry for it; when the store holds an
\* entry, the entry is removed and is_banned(ip) is false afterwards; the
\* call returns success exactly when the ban list was written, and then one
\* Info System event with action Unban{ip} goes to the operator log; when
\* the write fails it returns an error and logs nothing; nothing goes to
\* the fanout either way.
C24_UnbanSavedIsSuccess ==
    [][\A ip_str \in Targets, io_ok \in BOOLEAN :
          (hub_ret'.op = "unban" /\ UnbanClient(ip_str, io_ok)) =>
              /\ (ParseIp(ip_str) = {} \/ ip_str \notin DOMAIN bans) =>
                    /\ ~hub_ret'.ok
                    /\ UNCHANGED <<bans, disk, system_rx, writers, clients, stats>>
              /\ (ParseIp(ip_str) # {} /\ ip_str \in DOMAIN bans) =>
                    /\ ip_str \notin DOMAIN bans'
                    /\ ~is_banned_in(bans', ip_str, now')
                    /\ hub_ret'.ok <=> io_ok
                    /\ io_ok => system_rx' = Append(system_rx, UnbanLog(ip_str))
                    /\ ~io_ok => system_rx' = system_rx
                    /\ UNCHANGED <<writers, clients, stats>>]_vars

\* an unban succeeded and was logged, with a session subscribed to the
\* fanout
C24_Witness ==
    /\ hub_ret.op = "unban"
    /\ hub_ret.ok
    /\ system_rx # << >> /\ system_rx[Len(system_rx)] = UnbanLog(hub_ret.ip)
    /\ \E s \in Sessions : writers[s] # << >>

\* C25: a kick or ban whose target is the id or the nickname of a live
\* client resolves to that client (a ban: to that client's IP), and a ban
\* whose target is an IP that no live client bears as a name is a ban of
\* that IP, connected or not.
C25_TargetResolution ==
    [][/\ \A target \in Targets :
             (hub_ret'.op = "kick" /\ KickClient(target)) =>
                 \A c \in clients :
                     (c.id = target \/ c.nickname = target)
                         => (hub_ret'.ok /\ clients' = clients \ {c})
       /\ \A target \in Targets, duration \in BanDurations :
             (hub_ret'.op = "ban" /\ BanClient(target, duration, TRUE)) =>
                 /\ \A c \in clients :
                       (c.id = target \/ c.nickname = target) => hub_ret'.ip = c.ip
                 /\ (target \in IPs /\ ~ \E c \in clients : c.nickname = target)
                       => hub_ret'.ip = target]_vars

\* C26: every client of the registry is registered with the RateLimiter too
\* (its limiter and its message history exist from its pty_request on), and
\* a line is broadcast only after the limiter's checks of that line passed,
\* the flood check last.
C26_LinesAreRateChecked ==
    /\ \A c \in clients :
          c.id \in DOMAIN client_limiters /\ c.id \in DOMAIN message_history
    /\ (hub_ret.op = "broadcast_chat" /\ hub_ret.ok) =>
          (rate_ret.op = "check_flood" /\ rate_ret.res = "ok")

(***************************************************************************)
(* The rate limiter (SpecRate), with the configuration of its tests.  The  *)
(* limiter of a client is the token bucket of                              *)
(* Quota::per_second(messages_per_second).allow_burst(burst_capacity): it  *)
(* holds at most burst_capacity tokens, starts full and gains one token    *)
(* every 1 / messages_per_second seconds.  The clock counts ticks, and     *)
(* TicksPerToken ticks make the time one token takes; a bucket is kept as  *)
(* its credit in ticks, TicksPerToken of them being one token.             *)
(***************************************************************************)
messages_per_second == 2
burst_capacity == 5
max_connections_per_ip == 3

\* ticks in the time one token takes to come back
TicksPerToken == 2
\* the latest tick of the clock
MaxClock == 4
\* clients that register with the limiter
MaxRateClients == 1

RateClients == {UuidOf(n) : n \in 1..MaxRateClients}
OneSecond == messages_per_second * TicksPerToken
FullCredit == burst_capacity * TicksPerToken

Min(a, b) == IF a < b THEN a ELSE b

\* GovernorRateLimiter::direct(quota): a full bucket
NewLimiter(t) == [credit |-> FullCredit, at |-> t]

\* the credit of a bucket at time t
CreditAt(limiter, t) == Min(FullCredit, limiter.credit + (t - limiter.at))

\* a limiter that lets a check through on an empty bucket
ConformsOnEmpty(limiter, t) == CreditAt(limiter, t) >= 0

\* limiter.check(): one token is there to take
Conforms(limiter, t) == CreditAt(limiter, t) >= TicksPerToken

\* the bucket after a check that took a token
AfterCheck(limiter, t) == [credit |-> CreditAt(limiter, t) - TicksPerToken, at |-> t]

\* no check_flood call of a client yet
NoFloodCalls == [ok |-> << >>, last |-> {}]

RateRet(op, client, res) == [op |-> op, client |-> client, res |-> res]

SeqRemove(seq, x) == SelectSeq(seq, LAMBDA y : y # x)

\* a limit that lets one connection more through
OverLimit(connection_count) == connection_count > max_connections_per_ip

\* register_client: connection_count >= max_connections_per_ip
AtLimit(connection_count) == connection_count >= max_connections_per_ip

\* RateLimiter::get_connection_count
get_connection_count(ip) ==
    IF ip \in DOMAIN ip_connections THEN Len(ip_connections[ip]) ELSE 0

\* RateLimiter::register_client; entry(ip).or_default() leaves an entry for
\* the IP also when the call is refused
RegisterClient(client_id, ip) ==
    /\ client_id \notin DOMAIN client_limiters
    /\ LET connections == IF ip \in DOMAIN ip_connections THEN ip_connections[ip] ELSE << >>
       IN  IF AtLimit(Len(connections))
           THEN /\ ip_connections' = MapInsert(ip_connections, ip, connections)
                /\ rate_ret' = RateRet("register_client", client_id, "Too many connections")
                /\ UNCHANGED <<client_limiters, message_history, successes, flood_calls>>
           ELSE /\ ip_connections' = MapInsert(ip_connections, ip, Append(connections, client_id))
                /\ client_limiters' = MapInsert(client_limiters, client_id, NewLimiter(clock))
                /\ message_history' = MapInsert(message_history, client_id, << >>)
                /\ successes' = MapInsert(successes, client_id, << >>)
                /\ flood_calls' = MapInsert(flood_calls, client_id, NoFloodCalls)
                /\ rate_ret' = RateRet("register_client", client_id, "ok")
    /\ UNCHANGED clock
    /\ UNCHANGED banVars /\ UNCHANGED hubVars /\ UNCHANGED bahnVars /\ UNCHANGED concVars /\ UNCHANGED threatVars /\ UNCHANGED console_ret /\ UNCHANGED uiVars /\ UNCHANGED rate_call

\* RateLimiter::unregister_client, called with the IP the client registered from
UnregisterClient(client_id, ip) ==
    /\ ip \in DOMAIN ip_connections
    /\ \E k \in DOMAIN ip_connections[ip] : ip_connections[ip][k] = client_id
    /\ LET connections == SeqRemove(ip_connections[ip], client_id)
       IN  ip_connections' = IF connections = << >>
                             THEN MapRemove(ip_connections, ip)
                             ELSE MapInsert(ip_connections, ip, connections)
    /\ client_limiters' = MapRemove(client_limiters, client_id)
    /\ message_history' = MapRemove(message_history, client_id)
    /\ successes' = MapRemove(successes, client_id)
    /\ flood_calls' = MapRemove(flood_calls, client_id)
    /\ rate_ret' = RateRet("unregister_client", client_id, "unit")
    /\ UNCHANGED clock
    /\ UNCHANGED banVars /\ UNCHANGED hubVars /\ UNCHANGED bahnVars /\ UNCHANGED concVars /\ UNCHANGED threatVars /\ UNCHANGED console_ret /\ UNCHANGED uiVars /\ UNCHANGED rate_call

\* RateLimiter::check_rate_limit
CheckRateLimit(client_id) ==
    /\ IF client_id \in DOMAIN client_limiters
       THEN IF Conforms(client_limiters[client_id], clock)
            THEN /\ client_limiters' = [client_limiters EXCEPT
                        ![client_id] = AfterCheck(@, clock)]
                 /\ successes' = [successes EXCEPT ![client_id] = Append(@, clock)]
                 /\ rate_ret' = RateRet("check_rate_limit", client_id, "ok")
            ELSE /\ rate_ret' = RateRet("check_rate_limit", client_id, "Rate limit exceeded")
                 /\ UNCHANGED <<client_limiters, successes>>
       ELSE /\ rate_ret' = RateRet("check_rate_limit", client_id, "Client not registered")
            /\ UNCHANGED <<client_limiters, successes>>
    /\ UNCHANGED <<clock, ip_connections, message_history, flood_calls>>
    /\ UNCHANGED banVars /\ UNCHANGED hubVars /\ UNCHANGED bahnVars /\ UNCHANGED concVars /\ UNCHANGED threatVars /\ UNCHANGED console_ret /\ UNCHANGED uiVars /\ UNCHANGED rate_call

\* the clock advances by one tick
RateTick ==
    /\ clock < MaxClock
    /\ clock' = clock + 1
    /\ rate_ret' = RateRet("none", "-", "none")
    /\ UNCHANGED <<client_limiters, ip_connections, message_history, successes, flood_calls>>
    /\ UNCHANGED banVars /\ UNCHANGED hubVars /\ UNCHANGED bahnVars /\ UNCHANGED concVars /\ UNCHANGED threatVars /\ UNCHANGED console_ret /\ UNCHANGED uiVars /\ UNCHANGED rate_call

NextRate ==
    \/ \E client_id \in RateClients, ip \in IPs : RegisterClient(client_id, ip)
    \/ \E client_id \in RateClients, ip \in IPs : UnregisterClient(client_id, ip)
    \/ \E client_id \in RateClients : CheckRateLimit(client_id)
    \/ RateTick

SpecRate == Init /\ [][NextRate]_vars

\* the limiter of client_id has let burst_capacity checks through since the
\* client registered, the first of them less than span ticks ago
BurstSince(client_id, span) ==
    /\ client_id \in DOMAIN successes
    /\ Len(successes[client_id]) = burst_capacity
    /\ clock - successes[client_id][1] < span

max_messages_in_window == 3
\* FloodConfig.window_seconds
window_seconds == 2
\* the latest second of the clock of SpecFlood
MaxFloodTime == 4
\* clients that register with the limiter in SpecFlood
MaxFloodClients == 1

FloodClients == {UuidOf(n) : n \in 1..MaxFloodClients}

\* now.duration_since(oldest).unwrap_or(Duration::ZERO)
duration_since(t, earlier) == IF t >= earlier THEN t - earlier ELSE 0

\* a window that also drops the timestamp window_seconds old
ExpiredInclusive(oldest, t) == duration_since(t, oldest) >= window_seconds

\* now.duration_since(oldest) > window
Expired(oldest, t) == duration_since(t, oldest) > window_seconds

\* while let Some(&oldest) = history.front() { ... pop_front() ... }
RECURSIVE DropExpired(_, _)
DropExpired(history, t) ==
    IF history # << >> /\ Expired(Head(history), t)
    THEN DropExpired(Tail(history), t)
    ELSE history

\* the last n elements of seq
LastN(seq, n) ==
    IF Len(seq) <= n THEN seq ELSE SubSeq(seq, Len(seq) - n + 1, Len(seq))

\* the history of check_flood calls after a call at time t
FloodCallsAfter(client_id, t, accepted) ==
    IF client_id \in DOMAIN flood_calls
    THEN [flood_calls EXCEPT ![client_id] =
            [ok |-> IF accepted THEN LastN(Append(@.ok, t), max_messages_in_window) ELSE @.ok,
             last |-> {t}]]
    ELSE flood_calls

\* RateLimiter::check_flood
CheckFlood(client_id) ==
    /\ IF client_id \in DOMAIN message_history
       THEN LET history == DropExpired(message_history[client_id], now)
            IN  IF Len(history) >= max_messages_in_window
                THEN /\ message_history' = [message_history EXCEPT ![client_id] = history]
                     /\ rate_ret' = RateRet("check_flood", client_id, "Flood detected")
                     /\ flood_calls' = FloodCallsAfter(client_id, now, FALSE)
                ELSE /\ message_history' = [message_history EXCEPT
                            ![client_id] = Append(history, now)]
                     /\ rate_ret' = RateRet("check_flood", client_id, "ok")
                     /\ flood_calls' = FloodCallsAfter(client_id, now, TRUE)
       ELSE /\ rate_ret' = RateRet("check_flood", client_id, "Client not registered")
            /\ flood_calls' = FloodCallsAfter(client_id, now, FALSE)
            /\ UNCHANGED message_history
    /\ UNCHANGED <<clock, client_limiters, ip_connections, successes>>
    /\ UNCHANGED banVars /\ UNCHANGED hubVars /\ UNCHANGED bahnVars /\ UNCHANGED concVars /\ UNCHANGED threatVars /\ UNCHANGED console_ret /\ UNCHANGED uiVars /\ UNCHANGED rate_call

\* SystemTime::now() advances by one second
FloodTick ==
    /\ now < MaxFloodTime
    /\ now' = now + 1
    /\ rate_ret' = RateRet("none", "-", "none")
    /\ UNCHANGED <<bans, disk, call, last_ret, unsaved, io_failures>>
    /\ UNCHANGED <<clock, client_limiters, ip_connections, message_history, successes,
                   flood_calls>>
    /\ UNCHANGED hubVars /\ UNCHANGED bahnVars /\ UNCHANGED concVars /\ UNCHANGED threatVars /\ UNCHANGED console_ret /\ UNCHANGED uiVars /\ UNCHANGED rate_call

NextFlood ==
    \/ \E client_id \in FloodClients, ip \in IPs : RegisterClient(client_id, ip)
    \/ \E client_id \in FloodClients, ip \in IPs : UnregisterClient(client_id, ip)
    \/ \E client_id \in FloodClients : CheckFlood(client_id)
    \/ FloodTick

SpecFlood == Init /\ [][NextFlood]_vars

\* the latest max_messages_in_window calls that check_flood let through for
\* client_id were made within the window_seconds that end now
FloodBurst(client_id) ==
    /\ client_id \in DOMAIN flood_calls
    /\ Len(flood_calls[client_id].ok) = max_messages_in_window
    /\ now - flood_calls[client_id].ok[1] <= window_seconds

\* every check_flood call of client_id so far was made more than
\* window_seconds ago
FloodQuiet(client_id) ==
    /\ client_id \in DOMAIN flood_calls
    /\ \A t \in flood_calls[client_id].last : now - t > window_seconds

\* C11: for a client that has its window, a check_flood call that comes
\* while the latest max_messages_in_window successful calls lie within
\* window_seconds fails; a call made more than window_seconds after every
\* earlier call succeeds; a rejected call adds no timestamp to the window.
C11_FloodWindow ==
    [][\A client_id \in FloodClients :
          (CheckFlood(client_id) /\ client_id \in DOMAIN message_history)
              => /\ FloodBurst(client_id) => rate_ret'.res = "Flood detected"
                 /\ FloodQuiet(client_id) => rate_ret'.res = "ok"
                 /\ rate_ret'.res = "Flood detected"
                       => Len(message_history'[client_id])
                             <= Len(message_history[client_id])]_vars

\* a call has just been rejected exactly window_seconds after the first of
\* the max_messages_in_window calls let through before it, none of them
\* made in the first second of the clock
C11_Witness ==
    /\ rate_ret.op = "check_flood"
    /\ rate_ret.res = "Flood detected"
    /\ \E client_id \in FloodClients :
          /\ FloodBurst(client_id)
          /\ now - flood_calls[client_id].ok[1] = window_seconds
          /\ flood_calls[client_id].ok[1] > 0

(***************************************************************************)
(* The connection limit per IP (SpecConn): clients register and unregister *)
(* one call after another.                                                 *)
(***************************************************************************)
\* clients that register with the limiter in SpecConn
MaxConnClients == 4

ConnClients == {UuidOf(n) : n \in 1..MaxConnClients}

NextConn ==
    \/ \E client_id \in ConnClients, ip \in IPs : RegisterClient(client_id, ip)
    \/ \E client_id \in ConnClients, ip \in IPs : UnregisterClient(client_id, ip)

SpecConn == Init /\ [][NextConn]_vars

\* client_id is a member of some IP's connections
HasMembership(connections, client_id) ==
    \E ip \in DOMAIN connections : \E k \in DOMAIN connections[ip] :
        connections[ip][k] = client_id

\* C12: a register from an IP that has max_connections_per_ip registered
\* clients fails and leaves the rejected client without bucket, window and
\* IP membership; a register from an IP with fewer clients succeeds; an
\* unregister lowers connection_count(ip) by one.
C12_ConnectionLimit ==
    [][\A client_id \in ConnClients, ip \in IPs :
          /\ RegisterClient(client_id, ip) =>
                IF get_connection_count(ip) = max_connections_per_ip
                THEN /\ rate_ret'.res = "Too many connections"
                     /\ client_id \notin DOMAIN client_limiters'
                     /\ client_id \notin DOMAIN message_history'
                     /\ ~HasMembership(ip_connections', client_id)
                     /\ get_connection_count(ip)' = max_connections_per_ip
                ELSE /\ rate_ret'.res = "ok"
                     /\ get_connection_count(ip)' = get_connection_count(ip) + 1
          /\ UnregisterClient(client_id, ip) =>
                get_connection_count(ip)' = get_connection_count(ip) - 1]_vars

\* a register has just been refused for an IP that has
\* max_connections_per_ip clients, and the refused client has no bucket
C12_Witness ==
    /\ rate_ret.op = "register_client"
    /\ rate_ret.res = "Too many connections"
    /\ rate_ret.client \notin DOMAIN client_limiters
    /\ \E ip \in IPs : get_connection_count(ip) = max_connections_per_ip

(***************************************************************************)
(* AutoBahn (SpecBahn): the violation records per IP and the delays of     *)
(* check_connection, one call after another, with config.enabled set or   *)
(* not, and the clock of the ban store for SystemTime::now().  The         *)
(* counters keep their saturation and the cast of calculate_connection_    *)
(* delay its sign, at a smaller width: connection_attempts is an unsigned  *)
(* integer of AttemptBits bits (u32 in the source), (attempts - 1) as i32  *)
(* a signed integer of the same width, and count saturates at MaxCount     *)
(* (u8::MAX in the source).  The f64 arithmetic of the delay is exact for  *)
(* the multiplier 2, and `as u64` truncates.                               *)
(***************************************************************************)
delay_on_first_violation == 100
delay_on_second_violation == 500
delay_on_third_violation == 2000
delay_on_fourth_violation == 5000
challenge_after_violations == 3
connection_delay_base_ms == 100
connection_delay_multiplier == 2
connection_delay_max_ms == 60000

\* the width of connection_attempts, in bits
AttemptBits == 4
\* the value count saturates at
MaxCount == 4

RECURSIVE Pow2(_)
Pow2(k) == IF k = 0 THEN 1 ELSE 2 * Pow2(k - 1)

\* u32::MAX
AttemptsMax == Pow2(AttemptBits) - 1

\* saturating_add(1) of connection_attempts and of count
saturating_add(n, max) == IF n < max THEN n + 1 ELSE max

\* n as i32
AsSigned(n) == IF n >= Pow2(AttemptBits - 1) THEN n - Pow2(AttemptBits) ELSE n

\* x * multiplier.powi(k) for k >= 0, followed up to max_delay only: the
\* product grows with k and min(max_delay) is taken of it
RECURSIVE ScaleUp(_, _)
ScaleUp(x, k) ==
    IF k = 0 \/ x >= connection_delay_max_ms THEN x
    ELSE ScaleUp(x * connection_delay_multiplier, k - 1)

\* x * multiplier.powi(-k) for k >= 0, truncated
RECURSIVE ScaleDown(_, _)
ScaleDown(x, k) ==
    IF k = 0 \/ x = 0 THEN x
    ELSE ScaleDown(x \div connection_delay_multiplier, k - 1)

\* base_delay * multiplier.powi(exponent)
powi_delay(exponent) ==
    IF exponent >= 0 THEN ScaleUp(connection_delay_base_ms, exponent)
    ELSE ScaleDown(connection_delay_base_ms, 0 - exponent)

\* AutoBahn::calculate_connection_delay
calculate_connection_delay(attempts) ==
    IF attempts <= 1 THEN 0
    ELSE Min(powi_delay(AsSigned(attempts - 1)), connection_delay_max_ms)

\* the ViolationRecord of ip (last_connection_attempt is written and never
\* read)
ViolationRecord(count, last_violation, connection_attempts) ==
    [count |-> count, last_violation |-> last_violation,
     connection_attempts |-> connection_attempts]

\* a record_violation that does not look at config.enabled
record_violation_when_disabled(m, ip, t) ==
    IF ip \in DOMAIN m
    THEN [m EXCEPT ![ip].count = saturating_add(@, MaxCount), ![ip].last_violation = t]
    ELSE MapInsert(m, ip, ViolationRecord(1, t, 0))

\* AutoBahn::record_violation on the map m at time t
record_violation(m, ip, t) ==
    IF ~enabled THEN m
    ELSE IF ip \in DOMAIN m
    THEN [m EXCEPT ![ip].count = saturating_add(@, MaxCount), ![ip].last_violation = t]
    ELSE MapInsert(m, ip, ViolationRecord(1, t, 0))

\* AutoBahn::record_connection_attempt on the map m at time t
record_connection_attempt(m, ip, t) ==
    IF ~enabled THEN m
    ELSE IF ip \in DOMAIN m
    THEN [m EXCEPT ![ip].connection_attempts = saturating_add(@, AttemptsMax)]
    ELSE MapInsert(m, ip, ViolationRecord(0, t, 1))

\* the progressive delay of check_connection: match record.count
violation_delay(count) ==
    CASE count = 0 -> 0
      [] count = 1 -> delay_on_first_violation
      [] count = 2 -> delay_on_second_violation
      [] count = 3 -> delay_on_third_violation
      [] OTHER -> delay_on_fourth_violation

\* a threshold that the count has to exceed
challenge_required_above(count) == count > challenge_after_violations

\* check_connection: record.count >= self.config.challenge_after_violations
challenge_required(count) == count >= challenge_after_violations

\* AutoBahn::get_violation_count
get_violation_count(ip) == IF ip \in DOMAIN violations THEN violations[ip].count ELSE 0

\* AutoBahn::cleanup_old_records on the map m at time t: retain the records
\* whose last_violation is less than max_age ago
cleanup_old_records(m, max_age, t) ==
    [ip \in {i \in DOMAIN m : duration_since(t, m[i].last_violation) < max_age} |-> m[ip]]

\* no task is inside check_connection
BahnQuiet == \A c \in BahnCallers : bahn_call[c].pc = "idle"

RecordViolation(ip) ==
    /\ BahnQuiet
    /\ violations' = record_violation(violations, ip, now)
    /\ bahn_ret' = BahnRet("record_violation", ip, 0, 0, 0, "unit")
    /\ UNCHANGED <<enabled, bahn_call>>
    /\ UNCHANGED banVars /\ UNCHANGED hubVars /\ UNCHANGED rateVars /\ UNCHANGED concVars /\ UNCHANGED threatVars /\ UNCHANGED console_ret /\ UNCHANGED uiVars /\ UNCHANGED rate_call

\* AutoBahn::check_connection; require_challenge always fails
CheckConnection(ip) ==
    /\ BahnQuiet
    /\ violations' = record_connection_attempt(violations, ip, now)
    /\ IF ~enabled \/ ip \notin DOMAIN violations'
       THEN bahn_ret' = BahnRet("check_connection", ip, 0, 0, 0, "ok")
       ELSE LET record == violations'[ip]
                delay_ms == calculate_connection_delay(record.connection_attempts)
            IN  bahn_ret' =
                   IF challenge_required(record.count)
                   THEN BahnRet("check_connection", ip, record.connection_attempts,
                                delay_ms, 0, "AutoBahn challenge required")
                   ELSE BahnRet("check_connection", ip, record.connection_attempts,
                                delay_ms, violation_delay(record.count), "ok")
    /\ UNCHANGED <<enabled, bahn_call>>
    /\ UNCHANGED banVars /\ UNCHANGED hubVars /\ UNCHANGED rateVars /\ UNCHANGED concVars /\ UNCHANGED threatVars /\ UNCHANGED console_ret /\ UNCHANGED uiVars /\ UNCHANGED rate_call

\* AutoBahn::clear_violations
ClearViolations(ip) ==
    /\ BahnQuiet
    /\ ip \in DOMAIN violations
    /\ violations' = MapRemove(violations, ip)
    /\ bahn_ret' = BahnRet("clear_violations", ip, 0, 0, 0, "unit")
    /\ UNCHANGED <<enabled, bahn_call>>
    /\ UNCHANGED banVars /\ UNCHANGED hubVars /\ UNCHANGED rateVars /\ UNCHANGED concVars /\ UNCHANGED threatVars /\ UNCHANGED console_ret /\ UNCHANGED uiVars /\ UNCHANGED rate_call

\* AutoBahn::cleanup_old_records
CleanupOldRecords(max_age) ==
    /\ BahnQuiet
    /\ violations' = cleanup_old_records(violations, max_age, now)
    /\ violations' # violations
    /\ bahn_ret' = BahnRet("cleanup_old_records", "-", 0, 0, 0, "unit")
    /\ UNCHANGED <<enabled, bahn_call>>
    /\ UNCHANGED banVars /\ UNCHANGED hubVars /\ UNCHANGED rateVars /\ UNCHANGED concVars /\ UNCHANGED threatVars /\ UNCHANGED console_ret /\ UNCHANGED uiVars /\ UNCHANGED rate_call

\* the ages the maintenance task may pass to cleanup_old_records, in seconds
MaxAges == {60}

\* AutoBahn::new with either setting of config.enabled
InitAutoBahn ==
    /\ InitBan /\ InitHub /\ InitRate /\ InitConc /\ InitThreat /\ InitConsole /\ InitUi
    /\ \E e \in BOOLEAN : AutoBahnNew(e)

NextBahn ==
    \/ \E ip \in IPs : RecordViolation(ip)
    \/ \E ip \in IPs : CheckConnection(ip)
    \/ \E ip \in IPs : ClearViolations(ip)
    \/ \E max_age \in MaxAges : CleanupOldRecords(max_age)
    \/ Tick

SpecBahn == InitAutoBahn /\ [][NextBahn]_vars

\* min(base * multiplier^(n - 1), max) of the specification, for n >= 2
DelayFormula(n) == Min(ScaleUp(connection_delay_base_ms, n - 1), connection_delay_max_ms)

\* C13: the connection delay of every check_connection is 0 for an attempt
\* count of at most 1 and min(base * multiplier^(n-1), max) for a count n
\* of 2 or more, up to the saturated maximum, and it never exceeds max.
C13_ConnectionDelay ==
    bahn_ret.op = "check_connection" =>
        /\ bahn_ret.connection_delay <= connection_delay_max_ms
        /\ bahn_ret.connection_delay =
              IF bahn_ret.attempts <= 1 THEN 0 ELSE DelayFormula(bahn_ret.attempts)

\* C28: with AutoBahn disabled no operation creates or changes a record,
\* get_violation_count is 0 for every IP, and check_connection returns Ok
\* without any delay.
C28_DisabledIsNoOp ==
    ~enabled =>
        /\ violations = EmptyMap
        /\ \A ip \in IPs : get_violation_count(ip) = 0
        /\ bahn_ret.op = "check_connection" =>
              /\ bahn_ret.res = "ok"
              /\ bahn_ret.connection_delay = 0
              /\ bahn_ret.violation_delay = 0

\* a disabled AutoBahn was told of a violation, later in time
C28_Witness ==
    /\ ~enabled
    /\ bahn_ret.op = "record_violation"
    /\ now > 0

\* C29: with AutoBahn enabled, check_connection(ip) adds one to the IP's
\* connection_attempts (saturating; 1 for a new record), returns the
\* challenge error when the IP's violation count is at least
\* challenge_after_violations and Ok when it is below; so an IP whose record
\* is at the threshold is refused by every check_connection for as long as
\* the record stays.
C29_ChallengeAtThreshold ==
    [][\A ip \in IPs :
          (enabled /\ bahn_ret'.op = "check_connection" /\ CheckConnection(ip)) =>
              /\ ip \in DOMAIN violations'
              /\ violations'[ip].connection_attempts =
                    IF ip \notin DOMAIN violations THEN 1
                    ELSE IF violations[ip].connection_attempts < AttemptsMax
                    THEN violations[ip].connection_attempts + 1
                    ELSE AttemptsMax
              /\ violations'[ip].count = get_violation_count(ip)
              /\ (get_violation_count(ip) >= challenge_after_violations)
                    => bahn_ret'.res = "AutoBahn challenge required"
              /\ (get_violation_count(ip) < challenge_after_violations)
                    => bahn_ret'.res = "ok"]_vars

\* an IP exactly at the threshold was refused at a repeated attempt
C29_Witness ==
    /\ enabled
    /\ bahn_ret.op = "check_connection"
    /\ bahn_ret.res = "AutoBahn challenge required"
    /\ bahn_ret.attempts >= 2
    /\ violations[bahn_ret.ip].count = challenge_after_violations

(***************************************************************************)
(* AutoBahn with concurrent callers (SpecBahnConc).  check_connection is   *)
(* taken in the steps between its awaits; `record` is the dashmap Ref that *)
(* violations.get(&ip) returns, a read guard of the entry's shard that     *)
(* lives to the end of the `if let` block.  entry() takes the write lock   *)
(* of the shard and waits, blocking its thread, while a read guard is out. *)
(* Every key is taken to have a shard of its own.                          *)
(***************************************************************************)
\* check_connection calls per IP
MaxBahnChecks == 3

\* the positions of check_connection that are awaits: the sleep of the
\* connection delay, the sleep of require_challenge, the sleep of the
\* progressive delay
SleepPositions == {"sleep_connection", "sleep_challenge", "sleep_violation"}

\* the task is suspended at an await
Suspended(c) == bahn_call[c].pc \in SleepPositions

\* the task holds a Ref of the entry of ip
HoldsRef(c, ip) == ip \in bahn_call[c].record

\* a read guard of the shard of ip is out, held by another task than c
ShardReadLocked(c, ip) == \E d \in BahnCallers \ {c} : HoldsRef(d, ip)

BahnFrame ==
    UNCHANGED enabled /\ UNCHANGED banVars /\ UNCHANGED hubVars /\ UNCHANGED rateVars
        /\ UNCHANGED concVars /\ UNCHANGED threatVars /\ UNCHANGED console_ret /\ UNCHANGED uiVars /\ UNCHANGED rate_call

\* check_connection up to the return of record_connection_attempt, whose
\* entry() waits for the write lock of the shard
BcRecordAttempt(c, ip) ==
    /\ bahn_call[c].pc = "idle"
    /\ ip \in DOMAIN violations => violations[ip].connection_attempts < MaxBahnChecks
    /\ IF ~enabled
       THEN /\ bahn_ret' = BahnRet("check_connection", ip, 0, 0, 0, "ok")
            /\ UNCHANGED <<violations, bahn_call>>
       ELSE IF ShardReadLocked(c, ip)
       THEN /\ bahn_call' = [bahn_call EXCEPT ![c] =
                                [pc |-> "wait_attempt", ip |-> {ip}, record |-> {}]]
            /\ UNCHANGED <<violations, bahn_ret>>
       ELSE /\ violations' = record_connection_attempt(violations, ip, now)
            /\ bahn_call' = [bahn_call EXCEPT ![c] =
                                [pc |-> "get", ip |-> {ip}, record |-> {}]]
            /\ UNCHANGED bahn_ret
    /\ BahnFrame

\* the write lock is free again and record_connection_attempt goes on
BcAttemptUnblocked(c) ==
    /\ bahn_call[c].pc = "wait_attempt"
    /\ \E ip \in bahn_call[c].ip :
          /\ ~ShardReadLocked(c, ip)
          /\ violations' = record_connection_attempt(violations, ip, now)
    /\ bahn_call' = [bahn_call EXCEPT ![c].pc = "get"]
    /\ UNCHANGED bahn_ret
    /\ BahnFrame

\* `if let Some(record) = self.violations.get(&ip)` and the connection delay
BcGet(c) ==
    /\ bahn_call[c].pc = "get"
    /\ \E ip \in bahn_call[c].ip :
          IF ip \notin DOMAIN violations
          THEN /\ bahn_call' = [bahn_call EXCEPT ![c] = NoBahnCall]
               /\ bahn_ret' = BahnRet("check_connection", ip, 0, 0, 0, "ok")
          ELSE /\ bahn_call' = [bahn_call EXCEPT
                     ![c].record = {ip},
                     ![c].pc = IF calculate_connection_delay(
                                      violations[ip].connection_attempts) > 0
                               THEN "sleep_connection" ELSE "challenge"]
               /\ UNCHANGED bahn_ret
    /\ UNCHANGED violations
    /\ BahnFrame

\* tokio::time::sleep(delay_ms) of the connection delay is over
BcConnectionSlept(c) ==
    /\ bahn_call[c].pc = "sleep_connection"
    /\ bahn_call' = [bahn_call EXCEPT ![c].pc = "challenge"]
    /\ UNCHANGED <<violations, bahn_ret>>
    /\ BahnFrame

\* the test of record.count, the call of require_challenge up to its sleep,
\* and the progressive delay
BcChallenge(c) ==
    /\ bahn_call[c].pc = "challenge"
    /\ \E ip \in bahn_call[c].record :
          LET record == violations[ip]
              delay_ms == calculate_connection_delay(record.connection_attempts)
          IN  IF challenge_required(record.count)
              THEN /\ bahn_call' = [bahn_call EXCEPT ![c].pc = "sleep_challenge"]
                   /\ UNCHANGED bahn_ret
              ELSE IF violation_delay(record.count) > 0
              THEN /\ bahn_call' = [bahn_call EXCEPT ![c].pc = "sleep_violation"]
                   /\ UNCHANGED bahn_ret
              ELSE /\ bahn_call' = [bahn_call EXCEPT ![c] = NoBahnCall]
                   /\ bahn_ret' = BahnRet("check_connection", ip, record.connection_attempts,
                                          delay_ms, 0, "ok")
    /\ UNCHANGED violations
    /\ BahnFrame

\* the sleep of require_challenge is over: Err, and the Ref is dropped
BcChallengeTimedOut(c) ==
    /\ bahn_call[c].pc = "sleep_challenge"
    /\ \E ip \in bahn_call[c].record :
          bahn_ret' = BahnRet("check_connection", ip, violations[ip].connection_attempts,
                              calculate_connection_delay(violations[ip].connection_attempts),
                              0, "AutoBahn challenge required")
    /\ bahn_call' = [bahn_call EXCEPT ![c] = NoBahnCall]
    /\ UNCHANGED violations
    /\ BahnFrame

\* the sleep of the progressive delay is over: Ok, and the Ref is dropped
BcViolationSlept(c) ==
    /\ bahn_call[c].pc = "sleep_violation"
    /\ \E ip \in bahn_call[c].record :
          bahn_ret' = BahnRet("check_connection", ip, violations[ip].connection_attempts,
                              calculate_connection_delay(violations[ip].connection_attempts),
                              violation_delay(violations[ip].count), "ok")
    /\ bahn_call' = [bahn_call EXCEPT ![c] = NoBahnCall]
    /\ UNCHANGED violations
    /\ BahnFrame

\* record_violation by a task: its entry() waits for the write lock
BcRecordViolation(c, ip) ==
    /\ bahn_call[c].pc = "idle"
    /\ enabled
    /\ IF ShardReadLocked(c, ip)
       THEN /\ bahn_call' = [bahn_call EXCEPT ![c] =
                                [pc |-> "wait_violation", ip |-> {ip}, record |-> {}]]
            /\ UNCHANGED <<violations, bahn_ret>>
       ELSE /\ violations' = record_violation(violations, ip, now)
            /\ bahn_ret' = BahnRet("record_violation", ip, 0, 0, 0, "unit")
            /\ UNCHANGED bahn_call
    /\ BahnFrame

\* the write lock is free again and record_violation goes on
BcViolationUnblocked(c) ==
    /\ bahn_call[c].pc = "wait_violation"
    /\ \E ip \in bahn_call[c].ip :
          /\ ~ShardReadLocked(c, ip)
          /\ violations' = record_violation(violations, ip, now)
          /\ bahn_ret' = BahnRet("record_violation", ip, 0, 0, 0, "unit")
    /\ bahn_call' = [bahn_call EXCEPT ![c] = NoBahnCall]
    /\ BahnFrame

NextBahnConc ==
    \/ \E c \in BahnCallers, ip \in IPs : BcRecordAttempt(c, ip)
    \/ \E c \in BahnCallers : BcAttemptUnblocked(c)
    \/ \E c \in BahnCallers : BcGet(c)
    \/ \E c \in BahnCallers : BcConnectionSlept(c)
    \/ \E c \in BahnCallers : BcChallenge(c)
    \/ \E c \in BahnCallers : BcChallengeTimedOut(c)
    \/ \E c \in BahnCallers : BcViolationSlept(c)
    \/ \E c \in BahnCallers, ip \in IPs : BcRecordViolation(c, ip)
    \/ \E c \in BahnCallers : BcViolationUnblocked(c)

SpecBahnConc == Init /\ [][NextBahnConc]_vars

\* C30: a task suspended at an await holds no synchronous lock, so no task
\* waits for the lock of a map entry while its holder sleeps.
C30_NoLockAcrossAwait ==
    \A c \in BahnCallers :
        Suspended(c) =>
            /\ bahn_call[c].record = {}
            /\ \A d \in BahnCallers \ {c} :
                  bahn_call[d].pc \in {"wait_attempt", "wait_violation"}
                      => bahn_call[d].ip # bahn_call[c].ip

(***************************************************************************)
(* The hub with concurrent callers (SpecHubConc, SpecAddConc).  Sessions   *)
(* run on the worker threads of the runtime and the operator's commands on *)
(* the console task, so the methods of ChatServer interleave in the steps  *)
(* their locks allow: a read or a write of the DashMap, a send on a        *)
(* channel.  broadcast_chat holds the Ref of clients.get() until it        *)
(* returns, so its lookup and its send are one step with respect to the    *)
(* removal of that client.  chat_log is the sequence of events sent on     *)
(* chat_tx, each with the id of the client it is about; a Receiver is a    *)
(* position in that sequence.                                              *)
(***************************************************************************)
\* add_client calls that reach the insert
MaxHubAdds == 3
\* broadcast_chat calls that send
MaxHubChats == 1
\* sessions of SpecHubConc
MaxFanCallers == 2

FanCallers == 1..MaxFanCallers

\* The address plays no part in the steps below and the names are
\* interchangeable: every session comes from the first address, and the
\* first session uses the first name.
CallerIps(c) == {"10.0.0.1"}
CallerNicks(c) == IF c = 1 THEN {"alice"} ELSE Nicks

\* an event of chat_log
Sent(kind, id, nickname) == [kind |-> kind, id |-> id, nickname |-> nickname]

\* a lookup that finds every id
InRegistryAlways(cs, id) == TRUE

\* clients.get(&client_id) is Some
InRegistry(cs, id) == \E cl \in cs : cl.id = id

\* the calls of add_client that are past its checks or about to insert
AddsInFlight == Cardinality({c \in HubCallers : hub_call[c].pc \in {"add_nick", "add_insert"}})

\* the variables of the hub that the concurrent steps leave alone
ConcFrame == UNCHANGED <<sess, writers>> /\ NoStoreCall
                /\ UNCHANGED rateVars /\ UNCHANGED bahnVars
                /\ UNCHANGED threatVars /\ UNCHANGED console_ret /\ UNCHANGED uiVars /\ UNCHANGED rate_call

\* add_client: the max_clients check
AddClientLen(c, nickname, ip) ==
    /\ hub_call[c].pc = "idle"
    /\ nickname \in CallerNicks(c) /\ ip \in CallerIps(c)
    /\ (next_id - 1) + AddsInFlight < MaxHubAdds
    /\ IF Cardinality(clients) >= max_clients
       THEN /\ hub_ret' = Step("add_client", FALSE, ip, "Server full", {})
            /\ UNCHANGED hub_call
       ELSE /\ hub_call' = [hub_call EXCEPT ![c] =
                    [pc |-> "add_nick", nickname |-> {nickname}, ip |-> {ip}, id |-> {}]]
            /\ hub_ret' = NoStep
    /\ UNCHANGED <<clients, next_id, stats, system_rx, op_call, chat_log, receivers>>
    /\ ConcFrame

\* add_client: the nickname check
AddClientNick(c) ==
    /\ hub_call[c].pc = "add_nick"
    /\ IF \E nickname \in hub_call[c].nickname : ~is_nickname_available(clients, nickname)
       THEN /\ hub_call' = [hub_call EXCEPT ![c] = NoHubCall]
            /\ hub_ret' = Step("add_client", FALSE, "-", "Nickname already taken", {})
       ELSE /\ hub_call' = [hub_call EXCEPT ![c].pc = "add_insert"]
            /\ hub_ret' = NoStep
    /\ UNCHANGED <<clients, next_id, stats, system_rx, op_call, chat_log, receivers>>
    /\ ConcFrame

\* add_client: clients.insert and the stats
AddClientInsert(c) ==
    /\ hub_call[c].pc = "add_insert"
    /\ \E nickname \in hub_call[c].nickname, ip \in hub_call[c].ip :
          clients' = clients \cup {Client(UuidOf(next_id), nickname, ip)}
    /\ next_id' = next_id + 1
    /\ stats' = [stats EXCEPT !.total_connections = @ + 1]
    /\ hub_call' = [hub_call EXCEPT ![c].pc = "add_notice", ![c].id = {UuidOf(next_id)}]
    /\ hub_ret' = NoStep
    /\ UNCHANGED <<system_rx, op_call, chat_log, receivers>>
    /\ ConcFrame

\* add_client: the Joined notice, the Info log and the return
AddClientNotice(c) ==
    /\ hub_call[c].pc = "add_notice"
    /\ \E nickname \in hub_call[c].nickname, ip \in hub_call[c].ip, id \in hub_call[c].id :
          /\ chat_log' = Append(chat_log, Sent("Joined", id, nickname))
          /\ system_rx' = Append(system_rx, SystemEvent("Info", "joined", {ip}, {}))
          /\ hub_ret' = Step("add_client", TRUE, ip, "-", {})
    /\ hub_call' = [hub_call EXCEPT ![c].pc = "joined"]
    /\ UNCHANGED <<clients, next_id, stats, op_call, receivers>>
    /\ ConcFrame

\* a Receiver subscribed when len events had been sent
Subscribed(len) == [since |-> len, next |-> len + 1, last |-> len]

\* pty_request after add_client: subscribe_chat and the writer task
Subscribe(c) ==
    /\ hub_call[c].pc = "joined"
    /\ receivers' = [receivers EXCEPT ![c] = {Subscribed(Len(chat_log))}]
    /\ hub_call' = [hub_call EXCEPT ![c].pc = "open"]
    /\ hub_ret' = NoStep
    /\ UNCHANGED <<clients, next_id, stats, system_rx, op_call, chat_log>>
    /\ ConcFrame

\* broadcast_chat of the session's client
BroadcastChat(c) ==
    /\ hub_call[c].pc = "open"
    /\ \E id \in hub_call[c].id, nickname \in hub_call[c].nickname :
          IF InRegistry(clients, id)
          THEN /\ stats.total_messages < MaxHubChats
               /\ chat_log' = Append(chat_log, Sent("Chat", id, nickname))
               /\ stats' = [stats EXCEPT !.total_messages = @ + 1]
               /\ hub_ret' = Step("broadcast_chat", TRUE, "-", "-", {})
          ELSE /\ hub_ret' = Step("broadcast_chat", FALSE, "-", "Client not found", {})
               /\ UNCHANGED <<chat_log, stats>>
    /\ UNCHANGED <<clients, next_id, system_rx, hub_call, op_call, receivers>>
    /\ ConcFrame

\* remove_client of channel_eof or channel_close: clients.remove
RemoveClientTake(c) ==
    /\ hub_call[c].pc = "open"
    /\ \E id \in hub_call[c].id :
          IF InRegistry(clients, id)
          THEN /\ clients' = {cl \in clients : cl.id # id}
               /\ hub_call' = [hub_call EXCEPT ![c].pc = "remove_notice"]
               /\ UNCHANGED receivers
          ELSE /\ hub_call' = [hub_call EXCEPT ![c].pc = "closed"]
               /\ receivers' = [receivers EXCEPT ![c] = {}]
               /\ UNCHANGED clients
    /\ hub_ret' = NoStep
    /\ UNCHANGED <<next_id, stats, system_rx, op_call, chat_log>>
    /\ ConcFrame

\* remove_client: the Left notice and the Info log; the session is over:
\* its channel leaves the map and its writer task writes nothing more
RemoveClientNotice(c) ==
    /\ hub_call[c].pc = "remove_notice"
    /\ \E nickname \in hub_call[c].nickname, ip \in hub_call[c].ip, id \in hub_call[c].id :
          /\ chat_log' = Append(chat_log, Sent("Left", id, nickname))
          /\ system_rx' = Append(system_rx, SystemEvent("Info", "left", {ip}, {}))
    /\ hub_call' = [hub_call EXCEPT ![c].pc = "closed"]
    /\ receivers' = [receivers EXCEPT ![c] = {}]
    /\ hub_ret' = Step("remove_client", TRUE, "-", "-", {})
    /\ UNCHANGED <<clients, next_id, stats, op_call>>
    /\ ConcFrame

\* kick_client's resolve_target, or ban_client's collection of the clients
\* of the IP: the operator takes a live client for removal
OpResolve ==
    /\ op_call.pc = "idle"
    /\ stats.total_kicks < MaxKicks
    /\ \E cl \in clients : op_call' = [pc |-> "take", target |-> {cl}]
    /\ hub_ret' = NoStep
    /\ UNCHANGED <<clients, next_id, stats, system_rx, hub_call, chat_log, receivers>>
    /\ ConcFrame

\* the operator's remove_client: clients.remove
OpTake ==
    /\ op_call.pc = "take"
    /\ \E cl \in op_call.target :
          IF InRegistry(clients, cl.id)
          THEN /\ clients' = {d \in clients : d.id # cl.id}
               /\ op_call' = [op_call EXCEPT !.pc = "notice"]
          ELSE /\ op_call' = [op_call EXCEPT !.pc = "stats"]
               /\ UNCHANGED clients
    /\ hub_ret' = NoStep
    /\ UNCHANGED <<next_id, stats, system_rx, hub_call, chat_log, receivers>>
    /\ ConcFrame

\* the operator's remove_client: the Left notice and the Info log
OpNotice ==
    /\ op_call.pc = "notice"
    /\ \E cl \in op_call.target :
          /\ chat_log' = Append(chat_log, Sent("Left", cl.id, cl.nickname))
          /\ system_rx' = Append(system_rx, SystemEvent("Info", "left", {cl.ip}, {}))
    /\ op_call' = [op_call EXCEPT !.pc = "stats"]
    /\ hub_ret' = NoStep
    /\ UNCHANGED <<clients, next_id, stats, hub_call, receivers>>
    /\ ConcFrame

\* kick_client's stats and Warning log, and its return
OpStats ==
    /\ op_call.pc = "stats"
    /\ \E cl \in op_call.target :
          /\ system_rx' = Append(system_rx,
                SystemEvent("Warning", "Kicked", {cl.ip},
                            {[action |-> "Kick", nickname |-> cl.nickname, ip |-> cl.ip]}))
          /\ hub_ret' = Step("kick", TRUE, cl.ip, "-", {})
    /\ stats' = [stats EXCEPT !.total_kicks = @ + 1]
    /\ op_call' = [pc |-> "idle", target |-> {}]
    /\ UNCHANGED <<clients, next_id, hub_call, chat_log, receivers>>
    /\ ConcFrame

\* a recv that takes the newest event
recv_newest(rx, len) == len

\* the event rx.recv() takes next
recv_position(rx, len) == rx.next

\* one pass of the writer task's loop: rx.recv() and the write of the line;
\* a Receiver that fell more than the capacity behind gets Lagged and the
\* loop ends
RecvAt(c, capacity) ==
    /\ \E rx \in receivers[c] :
          /\ rx.next <= Len(chat_log)
          /\ IF Len(chat_log) - rx.next + 1 > capacity
             THEN /\ receivers' = [receivers EXCEPT ![c] = {}]
                  /\ hub_ret' = Step("recv", FALSE, "-", "Lagged", {})
             ELSE LET at == recv_position(rx, Len(chat_log))
                  IN  /\ receivers' = [receivers EXCEPT ![c] =
                             {[rx EXCEPT !.next = rx.next + 1, !.last = at]}]
                      /\ hub_ret' = Step("recv", TRUE, "-", "-", {chat_log[at]})
    /\ UNCHANGED <<clients, next_id, stats, system_rx, hub_call, op_call, chat_log>>
    /\ ConcFrame

Recv(c) == RecvAt(c, FanoutCapacity)

\* the capacity of the fanout channel of SpecLag: the channel of the source
\* at a size that the sessions of the model can overrun
LagCapacity == 2

\* one pass of the writer task's loop on the smaller channel
RecvLagging(c) == RecvAt(c, LagCapacity)

NextHubConc ==
    \/ \E c \in FanCallers, nickname \in Nicks, ip \in IPs : AddClientLen(c, nickname, ip)
    \/ \E c \in FanCallers : AddClientNick(c)
    \/ \E c \in FanCallers : AddClientInsert(c)
    \/ \E c \in FanCallers : AddClientNotice(c)
    \/ \E c \in FanCallers : Subscribe(c)
    \/ \E c \in FanCallers : BroadcastChat(c)
    \/ \E c \in FanCallers : RemoveClientTake(c)
    \/ \E c \in FanCallers : RemoveClientNotice(c)
    \/ \E c \in FanCallers : Recv(c)
    \/ OpResolve
    \/ OpTake
    \/ OpNotice
    \/ OpStats

SpecHubConc == Init /\ [][NextHubConc]_vars

\* the hub of SpecHubConc on a fanout channel of LagCapacity events
NextLag ==
    \/ \E c \in FanCallers, nickname \in Nicks, ip \in IPs : AddClientLen(c, nickname, ip)
    \/ \E c \in FanCallers : AddClientNick(c)
    \/ \E c \in FanCallers : AddClientInsert(c)
    \/ \E c \in FanCallers : AddClientNotice(c)
    \/ \E c \in FanCallers : Subscribe(c)
    \/ \E c \in FanCallers : BroadcastChat(c)
    \/ \E c \in FanCallers : RemoveClientTake(c)
    \/ \E c \in FanCallers : RemoveClientNotice(c)
    \/ \E c \in FanCallers : RecvLagging(c)

SpecLag == Init /\ [][NextLag]_vars

NextAddConc ==
    \/ \E c \in HubCallers, nickname \in Nicks, ip \in IPs : AddClientLen(c, nickname, ip)
    \/ \E c \in HubCallers : AddClientNick(c)
    \/ \E c \in HubCallers : AddClientInsert(c)
    \/ \E c \in HubCallers : AddClientNotice(c)

SpecAddConc == Init /\ [][NextAddConc]_vars

\* the positions in chat_log of the events of kind about the client id
Positions(kind, id) ==
    {i \in DOMAIN chat_log : chat_log[i].kind = kind /\ chat_log[i].id = id}

\* the ids of the clients registered so far
IdsSoFar == {UuidOf(n) : n \in 1..(next_id - 1)}

\* C18: every event a subscriber receives was sent after it subscribed and
\* after the event it received before, and it is the event sent at that
\* position of the channel, whatever the order in which concurrent senders
\* reached the channel.
C18_FanoutOrder ==
    [][\A c \in FanCallers :
          (hub_ret'.op = "recv" /\ hub_ret'.ok /\ Recv(c)) =>
             \A rx \in receivers[c] : \A rx2 \in receivers'[c] :
                /\ rx2.last > rx.last
                /\ rx2.last > rx.since
                /\ rx2.since = rx.since
                /\ hub_ret'.wrote = {chat_log[rx2.last]}]_vars

\* a subscriber has just received its second event, sent by another session
\* than the first
C18_Witness ==
    /\ hub_ret.op = "recv"
    /\ hub_ret.ok
    /\ \E c \in FanCallers : \E rx \in receivers[c] :
          /\ rx.last = rx.since + 2
          /\ chat_log[rx.last].id # chat_log[rx.last - 1].id
          /\ hub_ret.wrote = {chat_log[rx.last]}

\* C19: on the fanout, the Joined notice of a client comes before each of
\* its Chat events and its Left notice after each of them, and a Chat event
\* is only sent for a client that is in the registry when it is sent.
C19_NoticesAroundChats ==
    /\ [](\A id \in IdsSoFar : \A i \in Positions("Chat", id) :
             /\ \E j \in Positions("Joined", id) : j < i
             /\ \A k \in Positions("Left", id) : k > i)
    /\ [][(Len(chat_log') > Len(chat_log) /\ chat_log'[Len(chat_log')].kind = "Chat")
             => InRegistry(clients, chat_log'[Len(chat_log')].id)]_vars

\* a client has chatted and been removed by the operator, and its session
\* has then been refused a chat
C19_Witness ==
    /\ hub_ret.op = "broadcast_chat"
    /\ ~hub_ret.ok
    /\ \E id \in IdsSoFar :
          /\ Positions("Chat", id) # {}
          /\ Positions("Left", id) # {}

\* C20: the registry never holds more than max_clients clients, also when
\* sessions call add_client concurrently; an add_client that succeeds has
\* added one to total_connections and sent one Joined notice and one Info
\* log, and one that is rejected leaves the registry, the stats and the
\* channels as they were.
C20_MaxClients ==
    /\ [](Cardinality(clients) <= max_clients)
    /\ [](stats.total_connections = next_id - 1)
    /\ [][\A c \in HubCallers :
             /\ AddClientNotice(c) =>
                   /\ Len(chat_log') = Len(chat_log) + 1
                   /\ Len(system_rx') = Len(system_rx) + 1
                   /\ system_rx'[Len(system_rx')].level = "Info"
             /\ (hub_ret'.op = "add_client" /\ ~hub_ret'.ok) =>
                   /\ clients' = clients
                   /\ stats' = stats
                   /\ chat_log' = chat_log
                   /\ system_rx' = system_rx]_vars

(***************************************************************************)
(* The threat lists (SpecThreat): a refresh of one source after another,   *)
(* and check_ip in the two steps its two read locks allow.  A body is the  *)
(* text a source returned: lines of text, or the text of a JSON array of   *)
(* strings.  A refresh holds both write locks from its clear() to its last *)
(* push, so it is one step.                                                *)
(***************************************************************************)
\* lines of a body
MaxBodyLines == 2

\* the networks of the lists and the addresses each contains
Networks == [n \in {"10.0.0.0/24", "10.0.0.1/32"} |->
                IF n = "10.0.0.0/24" THEN {"10.0.0.1", "10.0.0.2"} ELSE {"10.0.0.1"}]

\* IpNetwork::contains
network_contains(network, ip) == ip \in Networks[network]

\* the lines a source may send: an address, a network in the DROP format, a
\* comment and a line of an HTML page; the field before the first ';' of a
\* line, trimmed
ThreatLines ==
    [l \in {"10.0.0.1", "10.0.0.0/24 ; SBL1", "# comment", "<html>"} |->
        IF l = "10.0.0.0/24 ; SBL1" THEN "10.0.0.0/24" ELSE l]

Comments == {"# comment"}

LinesBody(lines) == [kind |-> "lines", items |-> lines]
JsonBody(items) == [kind |-> "json", items |-> items]

SeqsUpTo(S, n) == UNION {[1..k -> S] : k \in 0..n}

Bodies ==
    {LinesBody(lines) : lines \in SeqsUpTo(DOMAIN ThreatLines, MaxBodyLines)}
        \cup {JsonBody(items) : items \in SeqsUpTo({"10.0.0.1", "<html>"}, 1)}

\* the lines of a body as content.lines() yields them: the text of a JSON
\* array is one line that is neither an address nor a network
lines_of(body) == IF body.kind = "lines" THEN body.items ELSE <<"<html>">>

\* line.parse::<IpAddr>() as an Option
ParseIpAddr(line) == IF line \in IPs THEN {line} ELSE {}

\* cidr_str.parse::<IpNetwork>() as an Option; an address without a prefix
\* is the network of that address alone
ParseIpNetwork(cidr_str) ==
    IF cidr_str \in DOMAIN Networks THEN {cidr_str}
    ELSE IF cidr_str = "10.0.0.1" THEN {"10.0.0.1/32"}
    ELSE {}

\* the elements of seq that f maps to Some, mapped, in order
RECURSIVE FilterMap(_, _)
FilterMap(seq, f) ==
    IF seq = << >> THEN << >>
    ELSE LET rest == FilterMap(Tail(seq), f)
             opt == f[Head(seq)]
         IN  IF opt = {} THEN rest ELSE <<CHOOSE x \in opt : TRUE>> \o rest

\* what the loops of parse_list make of a line or of an item of the array
IpOfLine == [line \in DOMAIN ThreatLines |->
                IF line \in Comments THEN {} ELSE ParseIpAddr(line)]
NetworkOfLine == [line \in DOMAIN ThreatLines |->
                     IF line \in Comments THEN {} ELSE ParseIpNetwork(ThreatLines[line])]

\* ThreatListManager::parse_list: always Ok; what does not parse is left out
parse_list(body, format) ==
    CASE format = "Ip" ->
            [ok |-> TRUE, ips |-> FilterMap(lines_of(body), IpOfLine), cidrs |-> << >>]
      [] format = "Cidr" ->
            [ok |-> TRUE, ips |-> << >>, cidrs |-> FilterMap(lines_of(body), NetworkOfLine)]
      [] format = "Json" ->
            [ok |-> TRUE,
             ips |-> IF body.kind = "json" THEN FilterMap(body.items, IpOfLine) ELSE << >>,
             cidrs |-> << >>]

\* the body cannot be parsed in the format: the format is Json and the body
\* is not a JSON array of strings, or the format is Ip or Cidr and the body
\* has lines other than comments of which none is an address or a network
Unparseable(body, format) ==
    CASE format = "Json" -> body.kind # "json"
      [] format = "Ip" ->
            /\ \E i \in DOMAIN lines_of(body) : lines_of(body)[i] \notin Comments
            /\ FilterMap(lines_of(body), IpOfLine) = << >>
      [] format = "Cidr" ->
            /\ \E i \in DOMAIN lines_of(body) : lines_of(body)[i] \notin Comments
            /\ FilterMap(lines_of(body), NetworkOfLine) = << >>

Formats == {"Ip", "Cidr", "Json"}

\* what the fetch of a source gives: an error (transport, status, read of
\* the body) or a body
Fetches == {[ok |-> FALSE]} \cup {[ok |-> TRUE, body |-> b] : b \in Bodies}

\* ThreatListManager::fetch_list
fetch_list(fetched, format) ==
    IF fetched.ok THEN parse_list(fetched.body, format) ELSE [ok |-> FALSE]

Range(seq) == {seq[i] : i \in DOMAIN seq}

\* the pair of lists blocks ip
Listed(ips, cidrs, ip) ==
    ip \in ips \/ \E i \in DOMAIN cidrs : network_contains(cidrs[i], ip)

\* the pair of lists in force lets ip pass: noted for every call in flight
NotePasses(calls, ips, cidrs) ==
    [c \in ThreatCallers |->
        IF calls[c].pc # "idle" /\ \E ip \in calls[c].ip : ~Listed(ips, cidrs, ip)
        THEN [calls[c] EXCEPT !.passes = TRUE] ELSE calls[c]]

ThreatFrame ==
    UNCHANGED threat_config /\ UNCHANGED banVars /\ UNCHANGED hubVars /\ UNCHANGED rateVars
        /\ UNCHANGED bahnVars /\ UNCHANGED <<hub_call, op_call, chat_log, receivers>>
        /\ UNCHANGED console_ret /\ UNCHANGED uiVars /\ UNCHANGED rate_call

\* update_all: one pass of its loop, for an enabled source of the format
UpdateSource(format, fetched) ==
    /\ threat_config.enabled
    /\ LET result == fetch_list(fetched, format)
       IN  /\ IF result.ok
              THEN /\ ip_list' = Range(result.ips)
                   /\ cidr_list' = result.cidrs
              ELSE UNCHANGED <<ip_list, cidr_list>>
           /\ threat_ret' = ThreatRet("update", format, IF result.ok THEN "ok" ELSE "err",
                                      ~fetched.ok \/ Unparseable(fetched.body, format),
                                      FALSE)
    /\ threat_call' = NotePasses(threat_call, ip_list', cidr_list')
    /\ ThreatFrame

\* the answer of check_ip for a listed address
Answer == IF threat_config.action = "Block" THEN "err" ELSE "ok"

\* check_ip up to the release of the read lock of ip_list
CheckIpList(c, ip) ==
    /\ threat_call[c].pc = "idle"
    /\ IF ~threat_config.enabled
       THEN /\ threat_ret' = ThreatRet("check_ip", ip, "ok", FALSE, TRUE)
            /\ UNCHANGED threat_call
       ELSE IF ip \in ip_list
       THEN /\ threat_ret' = ThreatRet("check_ip", ip, Answer, FALSE,
                                       ~Listed(ip_list, cidr_list, ip))
            /\ UNCHANGED threat_call
       ELSE /\ threat_call' = [threat_call EXCEPT ![c] =
                   [pc |-> "cidr", ip |-> {ip}, passes |-> ~Listed(ip_list, cidr_list, ip)]]
            /\ UNCHANGED threat_ret
    /\ UNCHANGED <<ip_list, cidr_list>>
    /\ ThreatFrame

\* check_ip from the read lock of cidr_list on
CheckCidrList(c) ==
    /\ threat_call[c].pc = "cidr"
    /\ \E ip \in threat_call[c].ip :
          threat_ret' = ThreatRet("check_ip", ip,
                                  IF \E i \in DOMAIN cidr_list : network_contains(cidr_list[i], ip)
                                  THEN Answer ELSE "ok",
                                  FALSE, threat_call[c].passes)
    /\ threat_call' = [threat_call EXCEPT ![c] = NoThreatCall]
    /\ UNCHANGED <<ip_list, cidr_list>>
    /\ ThreatFrame

\* ThreatListManager::new with any configuration
InitThreatLists ==
    /\ InitBan /\ InitHub /\ InitRate /\ InitBahn /\ InitConc /\ InitConsole /\ InitUi
    /\ \E is_enabled \in BOOLEAN, action \in {"Block", "LogOnly"} :
          ThreatListManagerNew(ThreatListsConfig(is_enabled, action))

NextThreat ==
    \/ \E format \in Formats, fetched \in Fetches : UpdateSource(format, fetched)
    \/ \E c \in ThreatCallers, ip \in IPs : CheckIpList(c, ip)
    \/ \E c \in ThreatCallers : CheckCidrList(c)

SpecThreat == InitThreatLists /\ [][NextThreat]_vars

\* C22: a refresh of a source that fails, by a fetch error or by a body that
\* cannot be parsed in the source's format, leaves ip_list and cidr_list as
\* they were.
C22_FailedRefreshKeepsLists ==
    [][(threat_ret'.op = "update" /\ threat_ret'.failed)
        => UNCHANGED <<ip_list, cidr_list>>]_vars

\* C23: under action Block, check_ip answers Ok only for an address that
\* some pair of lists in force during the call does not block.
C23_CheckSeesOnePair ==
    (/\ threat_config.enabled
     /\ threat_config.action = "Block"
     /\ threat_ret.op = "check_ip"
     /\ threat_ret.res = "ok") => threat_ret.passes

(***************************************************************************)
(* The operator console (SpecConsole): parse_duration and the arm of       *)
(* parse_command that calls it.  A token is a sequence of characters; a    *)
(* character has a length in bytes (UTF-8) and a lower-case form.          *)
(***************************************************************************)
\* characters of a token that is drawn freely
MaxTokenLen == 3

\* the characters: their length in bytes, their lower-case form and, for a
\* decimal digit, its value
Chars ==
    [ch \in {"0", "5", "+", "m", "h", "d", "M", "x", "e'",
             "p", "e", "r", "a", "n", "t", "P", "E", "R"} |->
        [bytes |-> IF ch = "e'" THEN 2 ELSE 1,
         lower |-> CASE ch = "M" -> "m" [] ch = "P" -> "p" [] ch = "E" -> "e"
                     [] ch = "R" -> "r" [] OTHER -> ch,
         digit |-> CASE ch = "0" -> {0} [] ch = "5" -> {5} [] OTHER -> {}]]

Perm == <<"p", "e", "r", "m">>
PermanentWord == <<"p", "e", "r", "m", "a", "n", "e", "n", "t">>

\* what the operator may type for the duration
Tokens ==
    (SeqsUpTo({"0", "5", "+", "m", "h", "d", "M", "x", "e'"}, MaxTokenLen) \ {<< >>})
        \cup {Perm, PermanentWord, <<"P", "E", "R", "M">>, <<"P", "e", "r", "m">>,
              <<"p", "e", "r">>, <<"p", "e", "r", "m", "5">>}

\* str::len, in bytes
RECURSIVE str_len(_)
str_len(token) ==
    IF token = << >> THEN 0 ELSE Chars[Head(token)].bytes + str_len(Tail(token))

\* str::to_lowercase
to_lowercase(token) == [i \in DOMAIN token |-> Chars[token[i]].lower]

\* the value of a sequence of decimal digits
RECURSIVE digits_value(_)
digits_value(digits) ==
    IF digits = << >> THEN 0
    ELSE 10 * digits_value(SubSeq(digits, 1, Len(digits) - 1))
            + (CHOOSE v \in Chars[digits[Len(digits)]].digit : TRUE)

AllDigits(token) == token # << >> /\ \A i \in DOMAIN token : Chars[token[i]].digit # {}

\* num_str.parse::<u64>() as an Option: decimal digits after an optional '+'
parse_u64(num_str) ==
    LET digits == IF num_str # << >> /\ Head(num_str) = "+" THEN Tail(num_str) ELSE num_str
    IN  IF AllDigits(digits) THEN {digits_value(digits)} ELSE {}

Hours(h) == [unit |-> "h", n |-> h]
Days(d) == [unit |-> "d", n |-> d]

Parsed(duration) == [ok |-> TRUE, duration |-> duration]
ParseError(err) == [ok |-> FALSE, err |-> err]
\* the thread panicked
Panicked == [ok |-> FALSE, err |-> "panic"]

\* parse_duration; split_at panics when s.len() - 1 is inside a character
parse_duration(token) ==
    LET s_lower == to_lowercase(token)
        last == token[Len(token)]
        num_str == SubSeq(token, 1, Len(token) - 1)
    IN  IF s_lower = PermanentWord \/ s_lower = Perm THEN Parsed(Permanent)
        ELSE IF str_len(token) < 2 THEN ParseError("Invalid duration format")
        ELSE IF Chars[last].bytes > 1 THEN Panicked
        ELSE IF parse_u64(num_str) = {} THEN ParseError("Invalid duration number")
        ELSE LET num == CHOOSE n \in parse_u64(num_str) : TRUE
             IN  CASE last = "m" -> Parsed(Minutes(num))
                   [] last = "h" -> Parsed(Hours(num))
                   [] last = "d" -> Parsed(Days(num))
                   [] OTHER -> ParseError("Invalid duration unit")

\* parse_command for `/ban <target> <token>`: the Command, an Option
parse_command(token) ==
    IF parse_duration(token).ok THEN {[command |-> "Ban", duration |-> parse_duration(token).duration]}
    ELSE {}

\* execute_command for `/ban <target> <token>` up to the call of run_command
ParseCommand(token) ==
    /\ console_ret' = [token |-> token, res |-> parse_duration(token),
                       command |-> parse_command(token)]
    /\ UNCHANGED banVars /\ UNCHANGED hubVars /\ UNCHANGED rateVars /\ UNCHANGED bahnVars
    /\ UNCHANGED <<hub_call, op_call, chat_log, receivers>> /\ UNCHANGED threatVars
    /\ UNCHANGED uiVars /\ UNCHANGED rate_call

NextConsole == \E token \in Tokens : ParseCommand(token)

SpecConsole == Init /\ [][NextConsole]_vars

\* the grammar of the specification: permanent, perm, <n>m, <n>h, <n>d with
\* n a decimal number, and the BanDuration of each
InGrammar(token) ==
    \/ token \in {Perm, PermanentWord}
    \/ /\ Len(token) >= 2
       /\ token[Len(token)] \in {"m", "h", "d"}
       /\ AllDigits(SubSeq(token, 1, Len(token) - 1))

DurationOf(token) ==
    IF token \in {Perm, PermanentWord} THEN Permanent
    ELSE [unit |-> token[Len(token)],
          n |-> digits_value(SubSeq(token, 1, Len(token) - 1))]

\* C27: parse_duration accepts exactly permanent, perm, <n>m, <n>h and <n>d
\* and maps them to Permanent, Minutes(n), Hours(n), Days(n); every other
\* token is a parse error and no ban command is run for it.
C27_DurationGrammar ==
    console_ret.token # << >> =>
        IF InGrammar(console_ret.token)
        THEN /\ console_ret.res = Parsed(DurationOf(console_ret.token))
             /\ console_ret.command # {}
        ELSE /\ ~console_ret.res.ok
             /\ console_ret.res # Panicked
             /\ console_ret.command = {}

\* C21: a writer task whose receiver lagged goes on: the recv that reports
\* the lag leaves the task with its receiver, to deliver what is sent next.
C21_LaggedWriterContinues ==
    [][\A c \in FanCallers :
          (/\ hub_ret'.op = "recv"
           /\ hub_ret'.arg = "Lagged"
           /\ RecvLagging(c)) => receivers'[c] # {}]_vars

(***************************************************************************)
(* The sessions' line editor (SpecEditor): SshHandler::data character by   *)
(* character.  A text is a sequence of characters; the characters are      *)
(* named, "e'" is a character outside ASCII.                               *)
(***************************************************************************)
\* characters of one data packet
MaxPacketLen == 2
\* characters the line buffer may hold
MaxLineLen == 2
EditorChars == {"a", " ", "CR", "LF", "ETX", "DEL", "BS", "ESC", "e'"}
\* the packets the sessions send: each character alone, and pairs
Packets ==
    {<<c>> : c \in EditorChars} \cup
    {p \in SeqsUpTo(EditorChars, MaxPacketLen) :
        p \in {<<"CR", "LF">>, <<" ", "a">>, <<"a", "CR">>, <<"a", "ETX">>,
               <<"ETX", "a">>, <<"DEL", "LF">>, <<"e'", "a">>}}

\* char::is_ascii and char::is_control
is_ascii(c) == c # "e'"
is_control(c) == c \in {"CR", "LF", "ETX", "DEL", "BS", "ESC"}

\* str::trim of a buffer of ASCII characters without control characters
RECURSIVE trim_start(_)
trim_start(line) ==
    IF line # << >> /\ Head(line) = " " THEN trim_start(Tail(line)) ELSE line

RECURSIVE trim_end(_)
trim_end(line) ==
    IF line # << >> /\ line[Len(line)] = " "
    THEN trim_end(SubSeq(line, 1, Len(line) - 1)) ELSE line

\* the buffer as it is: no trim
trim_nothing(line) == line

trim(line) == trim_end(trim_start(line))

\* the state of the loop of data: the buffer, the texts given to
\* broadcast_chat, the writes to the channel, session.close, and whether the
\* handler returned (early, or with the error of a write)
LoopStart(buffer) ==
    [buffer |-> buffer, sent |-> << >>, wrote |-> << >>, closed |-> FALSE,
     returned |-> FALSE, err |-> FALSE]

\* send_to_client(...).await?: the fails-th write of the call fails
send_to_client(st, msg, fails) ==
    IF st.returned THEN st
    ELSE IF Len(st.wrote) + 1 = fails THEN [st EXCEPT !.returned = TRUE, !.err = TRUE]
    ELSE [st EXCEPT !.wrote = Append(@, msg)]

\* one pass of `for c in s.chars()`; found: broadcast_chat finds the client
data_char(st, c, found, fails) ==
    CASE c \in {"CR", "LF"} ->
            LET line == trim(st.buffer)
                taken == [st EXCEPT !.buffer = << >>,
                                    !.sent = IF line # << >> THEN Append(@, line) ELSE @]
                told == IF line # << >> /\ ~found
                        THEN send_to_client(taken, "error", fails) ELSE taken
            IN  send_to_client(told, "newline", fails)
      [] c = "ETX" -> [st EXCEPT !.closed = TRUE, !.returned = TRUE]
      [] c \in {"DEL", "BS"} ->
            send_to_client([st EXCEPT !.buffer = IF @ # << >>
                                                 THEN SubSeq(@, 1, Len(@) - 1) ELSE @],
                           "backspace", fails)
      [] is_ascii(c) /\ ~is_control(c) ->
            send_to_client([st EXCEPT !.buffer = Append(@, c)], c, fails)
      [] OTHER -> st

RECURSIVE data_loop(_, _, _, _)
data_loop(st, chars, found, fails) ==
    IF chars = << >> \/ st.returned THEN st
    ELSE data_loop(data_char(st, Head(chars), found, fails), Tail(chars), found, fails)

\* the ChatEvents of the texts a client sent
RECURSIVE ChatEvents(_, _)
ChatEvents(c, texts) ==
    IF texts = << >> THEN << >>
    ELSE <<ChatEvent(c.nickname, Head(texts), c.ip)>> \o ChatEvents(c, Tail(texts))

\* data: the handler of one packet on a session whose channel is open
DataChars(s, chars, fails) ==
    /\ HasChannel(s)
    /\ Quiet
    /\ IF sess[s].client_id = {}
       THEN /\ fails = 0
            /\ hub_ret' = Step("data", TRUE, "-",
                               [s |-> s, chars |-> chars, res |-> LoopStart(input_buffer[s])], {})
            /\ UNCHANGED <<stats, writers, sess, input_buffer, io_failures>>
       ELSE LET found == \E c \in clients : c.id \in sess[s].client_id
                res == data_loop(LoopStart(input_buffer[s]), chars, found, fails)
            IN  /\ Len(res.buffer) <= MaxLineLen
                /\ stats.total_messages + Len(res.sent) <= MaxMessages
                /\ (fails # 0) = res.err
                /\ MayFail(~res.err)
                /\ io_failures' = IF res.err THEN io_failures + 1 ELSE io_failures
                /\ input_buffer' = [input_buffer EXCEPT ![s] = res.buffer]
                /\ IF found
                   THEN \E c \in clients :
                           /\ c.id \in sess[s].client_id
                           /\ writers' = chat_tx_send(writers, ChatEvents(c, res.sent))
                           /\ stats' = [stats EXCEPT !.total_messages = @ + Len(res.sent)]
                   ELSE UNCHANGED <<stats, writers>>
                /\ sess' = IF res.err THEN [sess EXCEPT ![s].st = "dropped"] ELSE sess
                /\ hub_ret' = Step("data", ~res.err, "-",
                                   [s |-> s, chars |-> chars, res |-> res], Range(res.wrote))
    /\ last_ret' = NoRet
    /\ UNCHANGED <<now, bans, disk, call, unsaved>>
    /\ UNCHANGED <<clients, next_id, system_rx>>
    /\ UNCHANGED rateVars /\ UNCHANGED bahnVars /\ UNCHANGED concVars
    /\ UNCHANGED threatVars /\ UNCHANGED console_ret /\ UNCHANGED tui
    /\ UNCHANGED rate_call

\* the connections SpecEditor follows
EditorSessions == {1}

NextEditor ==
    \/ \E s \in EditorSessions, ip \in IPs : Accept(s, ip, TRUE, TRUE)
    \/ \E s \in EditorSessions, method \in Methods, user \in Nicks : Auth(s, method, user)
    \/ \E s \in EditorSessions : ChannelOpenSession(s)
    \/ \E s \in EditorSessions : PtyCheckBan(s)
    \/ \E s \in EditorSessions : PtyAddClient(s)
    \/ \E s \in EditorSessions, chars \in Packets, fails \in 0..MaxPacketLen :
          DataChars(s, chars, fails)
    \/ \E target \in Nicks : KickClient(target)
    \/ \E s \in EditorSessions, i \in 1..MaxConnections : WriterStep(s, i, TRUE)
    \/ DrainLogs

SpecEditor == Init /\ [][NextEditor]_vars

\* the characters of a stream up to its first Ctrl-C
RECURSIVE UpToEtx(_)
UpToEtx(stream) ==
    IF stream = << >> \/ Head(stream) = "ETX" THEN << >>
    ELSE <<Head(stream)>> \o UpToEtx(Tail(stream))

\* the positions of the CRs and LFs of a stream
Submits(stream) == {i \in DOMAIN stream : stream[i] \in {"CR", "LF"}}

\* what a line editor holds after the characters of seg, none of them CR or
\* LF: the printable ASCII characters, each DEL or BS taking the last away
RECURSIVE Edited(_)
Edited(seg) ==
    IF seg = << >> THEN << >>
    ELSE LET before == Edited(SubSeq(seg, 1, Len(seg) - 1))
             c == seg[Len(seg)]
         IN  IF c \in {"DEL", "BS"}
             THEN SubSeq(before, 1, Len(before) - 1)
             ELSE IF c \in {"a", " "} THEN Append(before, c) ELSE before

\* a text without the blanks at its ends
Trimmed(text) ==
    LET solid == {i \in DOMAIN text : text[i] # " "}
    IN  IF solid = {} THEN << >>
        ELSE SubSeq(text, CHOOSE i \in solid : \A j \in solid : i <= j,
                          CHOOSE i \in solid : \A j \in solid : j <= i)

\* the line a stream submits at position i, a CR or LF
LineAt(stream, i) ==
    LET from == IF \E j \in Submits(stream) : j < i
                THEN 1 + CHOOSE j \in Submits(stream) :
                            j < i /\ \A k \in Submits(stream) : k < i => k <= j
                ELSE 1
    IN  Trimmed(Edited(SubSeq(stream, from, i - 1)))

\* the lines a stream submits that are not empty, in order
RECURSIVE LinesUpTo(_, _)
LinesUpTo(stream, n) ==
    IF n = 0 THEN << >>
    ELSE LinesUpTo(stream, n - 1) \o
            (IF n \in Submits(stream) /\ LineAt(stream, n) # << >>
             THEN <<LineAt(stream, n)>> ELSE << >>)

\* what is pending after a stream: what came after its last CR or LF
Pending(stream) ==
    LET from == IF Submits(stream) = {} THEN 1
                ELSE 1 + CHOOSE j \in Submits(stream) : \A k \in Submits(stream) : k <= j
    IN  Edited(SubSeq(stream, from, Len(stream)))

\* C31: a packet of a registered session leaves in the buffer what is
\* pending after the buffer and the packet's characters up to a Ctrl-C,
\* and broadcast_chat is called once for each line submitted that is not
\* empty when trimmed, with the trimmed text, and for nothing else; Ctrl-C
\* closes the channel and submits nothing; a packet of a session without a
\* client changes nothing.
C31_LineEditor ==
    [][\A s \in Sessions :
          (/\ hub_ret'.op = "data"
           /\ hub_ret'.ok
           /\ hub_ret'.arg.s = s) =>
              LET chars == hub_ret'.arg.chars
                  res == hub_ret'.arg.res
                  stream == UpToEtx(input_buffer[s] \o chars)
              IN  IF sess[s].client_id = {}
                  THEN /\ UNCHANGED <<input_buffer, writers, stats, clients>>
                       /\ res.sent = << >>
                       /\ hub_ret'.wrote = {}
                  ELSE /\ input_buffer'[s] = Pending(stream)
                       /\ res.sent = LinesUpTo(stream, Len(stream))
                       /\ res.closed = (\E i \in DOMAIN chars : chars[i] = "ETX")
                       /\ \A c \in clients : c.id \in sess[s].client_id =>
                             /\ stats'.total_messages = stats.total_messages + Len(res.sent)
                             /\ writers' = chat_tx_send(writers, ChatEvents(c, res.sent))
                       /\ (\A c \in clients : c.id \notin sess[s].client_id) =>
                             UNCHANGED <<writers, stats>>]_vars

\* a CR LF pair after " a": one broadcast of "a", delivered to a writer task
C31_Witness ==
    /\ hub_ret.op = "data"
    /\ hub_ret.ok
    /\ hub_ret.arg.chars = <<"CR", "LF">>
    /\ hub_ret.arg.res.sent = << <<"a">> >>
    /\ input_buffer[hub_ret.arg.s] = << >>
    /\ \E s \in Sessions : \E i \in DOMAIN writers[s] :
          \E j \in DOMAIN writers[s][i].buf :
             writers[s][i].buf[j].type = "Chat" /\ writers[s][i].buf[j].text = <<"a">>

(***************************************************************************)
(* The dashboard's keys (SpecTui): handle_normal_input and                  *)
(* handle_command_input, with execute_command as Enter calls it.  The hub  *)
(* has no client, so run_command of a ban of the nickname x returns the    *)
(* Err of resolve_target.                                                  *)
(***************************************************************************)
\* commands the history may hold
MaxHistory == 2

\* the lines the operator types in command mode, up to any prefix
CommandLines ==
    {<<"q">>, <<" ", " ">>,
     <<"b", "a", "n", " ", "x", " ", "5", "m">>,
     <<"b", "a", "n", " ", "x", " ", "5", "e'">>}

IsPrefix(p, line) == Len(p) <= Len(line) /\ SubSeq(line, 1, Len(p)) = p

\* KeyCode and KeyModifiers::CONTROL of a key event
Key(code, ch, ctrl) == [code |-> code, ch |-> ch, ctrl |-> ctrl]
Keys ==
    {Key("Char", ch, FALSE) : ch \in {"q", ":", " ", "b", "a", "n", "x", "5", "m", "e'"}}
       \cup {Key("Char", "c", TRUE)}
       \cup {Key(code, "-", FALSE) : code \in {"Enter", "Esc", "Backspace", "Up", "Down", "Tab"}}

\* str::split_whitespace
RECURSIVE split_whitespace(_)
split_whitespace(line) ==
    LET rest == trim_start(line)
        n == IF \E i \in DOMAIN rest : rest[i] = " "
             THEN (CHOOSE i \in DOMAIN rest :
                      rest[i] = " " /\ \A j \in DOMAIN rest : rest[j] = " " => i <= j) - 1
             ELSE Len(rest)
    IN  IF rest = << >> THEN << >>
        ELSE <<SubSeq(rest, 1, n)>> \o split_whitespace(SubSeq(rest, n + 1, Len(rest)))

\* TuiConsole::parse_command of a line: Ok(command), Err, or the panic of
\* parse_duration
parse_line(cmd) ==
    LET parts == split_whitespace(cmd)
    IN  IF parts = << >> THEN ParseError("Empty command")
        ELSE IF parts[1] \in {<<"/", "k", "i", "c", "k">>, <<"k", "i", "c", "k">>}
        THEN IF Len(parts) < 2 THEN ParseError("Usage: /kick")
             ELSE [ok |-> TRUE, command |-> "Kick", target |-> parts[2]]
        ELSE IF parts[1] \in {<<"/", "b", "a", "n">>, <<"b", "a", "n">>}
        THEN IF Len(parts) < 3 THEN ParseError("Usage: /ban")
             ELSE IF parse_duration(parts[3]).ok
             THEN [ok |-> TRUE, command |-> "Ban", target |-> parts[2],
                   duration |-> parse_duration(parts[3]).duration]
             ELSE parse_duration(parts[3])
        ELSE IF parts[1] \in {<<"/", "u", "n", "b", "a", "n">>, <<"u", "n", "b", "a", "n">>}
        THEN IF Len(parts) < 2 THEN ParseError("Usage: /unban")
             ELSE [ok |-> TRUE, command |-> "Unban", ip |-> parts[2]]
        ELSE ParseError("Unknown command")

\* execute_command while the hub has no client: the status it sets, or the
\* panic
execute_command(t, cmd) ==
    IF parse_line(cmd) = Panicked THEN [t EXCEPT !.ended = "panicked"]
    ELSE [t EXCEPT !.status_message = {"Error"}]

leave_command_mode(t) == [t EXCEPT !.command_mode = FALSE, !.command_buffer = << >>,
                     !.history_index = {}]

\* handle_normal_input
handle_normal_input(t, key) ==
    IF key.code = "Char" /\ key.ch = "q" THEN [t EXCEPT !.ended = "quit"]
    ELSE IF key.code = "Char" /\ key.ch = "c" /\ key.ctrl THEN [t EXCEPT !.ended = "quit"]
    ELSE IF key.code = "Char" /\ key.ch = ":"
    THEN [t EXCEPT !.command_mode = TRUE, !.command_buffer = << >>, !.history_index = {}]
    ELSE t

\* handle_command_input; history_index counts from 0
handle_command_input(t, key) ==
    CASE key.code = "Esc" -> leave_command_mode(t)
      [] key.code = "Enter" ->
            LET cmd == trim(t.command_buffer)
            IN  IF cmd # << >>
                THEN LET run == execute_command(
                                   [t EXCEPT !.command_history = Append(@, cmd)], cmd)
                     IN  IF run.ended = "panicked" THEN run ELSE leave_command_mode(run)
                ELSE leave_command_mode(t)
      [] key.code = "Backspace" ->
            [t EXCEPT !.command_buffer = IF @ # << >> THEN SubSeq(@, 1, Len(@) - 1) ELSE @]
      [] key.code = "Up" ->
            IF t.command_history # << >>
            THEN LET idx == IF t.history_index = {} THEN Len(t.command_history) - 1
                            ELSE IF t.history_index = {0} THEN 0
                            ELSE (CHOOSE i \in t.history_index : TRUE) - 1
                 IN  [t EXCEPT !.history_index = {idx},
                               !.command_buffer = t.command_history[idx + 1]]
            ELSE t
      [] key.code = "Down" ->
            IF t.history_index # {}
            THEN LET idx == CHOOSE i \in t.history_index : TRUE
                 IN  IF idx < Len(t.command_history) - 1
                     THEN [t EXCEPT !.history_index = {idx + 1},
                                    !.command_buffer = t.command_history[idx + 2]]
                     ELSE [t EXCEPT !.history_index = {}, !.command_buffer = << >>]
            ELSE t
      [] key.code = "Char" -> [t EXCEPT !.command_buffer = Append(@, key.ch)]
      [] OTHER -> t

\* one key event of run_event_loop
HandleKey(key) ==
    /\ tui.ended = "running"
    /\ clients = {}
    /\ LET after == IF tui.command_mode THEN handle_command_input(tui, key)
                    ELSE handle_normal_input(tui, key)
       IN  /\ Len(after.command_history) <= MaxHistory
           /\ \E line \in CommandLines : IsPrefix(after.command_buffer, line)
           /\ tui' = after
           /\ hub_ret' = Step("key", after.ended # "panicked", "-", key, {})
    /\ last_ret' = NoRet
    /\ UNCHANGED <<now, bans, disk, call, unsaved, io_failures>>
    /\ UNCHANGED <<clients, next_id, stats, system_rx, sess, writers>>
    /\ UNCHANGED rateVars /\ UNCHANGED bahnVars /\ UNCHANGED concVars
    /\ UNCHANGED threatVars /\ UNCHANGED console_ret /\ UNCHANGED input_buffer
    /\ UNCHANGED rate_call

NextTui == \E key \in Keys : HandleKey(key)

SpecTui == Init /\ [][NextTui]_vars

\* C32: the keys of the dashboard.  ':' in normal mode enters command mode
\* with an empty buffer; Enter and Esc in command mode return to normal mode
\* with the buffer cleared and the history cursor unset; Enter appends the
\* trimmed buffer to the history exactly when it is not empty; the history
\* cursor is unset or an index into the history; only 'q' and Ctrl-C in
\* normal mode end the loop.
C32_ModeMachine ==
    [][hub_ret'.op = "key" =>
          LET key == hub_ret'.arg
          IN  /\ tui'.command_mode \in BOOLEAN
              /\ (~tui.command_mode /\ key = Key("Char", ":", FALSE)) =>
                     (tui'.command_mode /\ tui'.command_buffer = << >>)
              /\ (tui.command_mode /\ key.code \in {"Enter", "Esc"}) =>
                     /\ ~tui'.command_mode
                     /\ tui'.command_buffer = << >>
                     /\ tui'.history_index = {}
              /\ tui'.command_history =
                    IF /\ tui.command_mode /\ key.code = "Enter"
                       /\ Trimmed(tui.command_buffer) # << >>
                    THEN Append(tui.command_history, Trimmed(tui.command_buffer))
                    ELSE tui.command_history
              /\ tui'.history_index \subseteq 0..(Len(tui'.command_history) - 1)
              /\ (tui'.ended # "running") =>
                     /\ ~tui.command_mode
                     /\ key.code = "Char" /\ key.ch \in {"q", "c"}
                     /\ tui'.ended = "quit"]_vars

(***************************************************************************)
(* The writer tasks' ends (SpecWriters): sessions that join, reach EOF and *)
(* close, with the writer tasks and the dashboard scheduled fairly: the    *)
(* runtime runs a task that can take a step.  What the peers do is not     *)
(* assumed to happen.                                                      *)
(***************************************************************************)
NextWriters ==
    \/ \E s \in Sessions, ip \in IPs : Accept(s, ip, TRUE, TRUE)
    \/ \E s \in Sessions, method \in Methods, user \in Nicks : Auth(s, method, user)
    \/ \E s \in Sessions : ChannelOpenSession(s)
    \/ \E s \in Sessions : PtyCheckBan(s)
    \/ \E s \in Sessions : PtyAddClient(s)
    \/ \E s \in Sessions : ChannelEof(s)
    \/ \E s \in Sessions : ChannelClose(s)
    \/ \E s \in Sessions, i \in 1..MaxConnections : WriterStep(s, i, TRUE)
    \/ DrainLogs

SpecWriters ==
    /\ Init /\ [][NextWriters]_vars
    /\ \A s \in Sessions, i \in 1..MaxConnections : WF_vars(WriterStep(s, i, TRUE))
    /\ WF_vars(DrainLogs)

\* C33: once channel_close has taken a session's channel from the map, the
\* session's writer tasks end, whatever the other sessions do or leave.
C33_WriterTerminates ==
    \A s \in Sessions : (sess[s].st = "closed") ~> (writers[s] = << >>)

(***************************************************************************)
(* Claims about concurrent sessions and the operator.                      *)
(***************************************************************************)
\* C34: with add_client calls of several sessions interleaved, the registry
\* never holds two clients of one nickname, and of the calls for one
\* nickname at most one is past the nickname check or has succeeded while
\* the nickname is held.
C34_AddClientAtomic ==
    /\ \A a \in clients, b \in clients : a.nickname = b.nickname => a = b
    /\ \A c \in HubCallers, d \in HubCallers :
          (/\ hub_call[c].pc \in {"add_notice", "joined"}
           /\ hub_call[d].pc \in {"add_notice", "joined"}
           /\ hub_call[c].nickname = hub_call[d].nickname) => c = d

(***************************************************************************)
(* The rate limiter with concurrent callers (SpecRateConc): register_client *)
(* and unregister_client in the steps the locks of the three DashMaps      *)
(* allow.  Every client comes from one address.                            *)
(***************************************************************************)
\* clients that register
MaxRateConcClients == 4

SharedIp == "10.0.0.1"

\* the ids that hold a bucket and a window
Registered == DOMAIN client_limiters \cap DOMAIN message_history

RateFrame ==
    /\ UNCHANGED <<clock, successes, flood_calls>>
    /\ UNCHANGED banVars /\ UNCHANGED bahnVars /\ UNCHANGED concVars
    /\ UNCHANGED <<clients, stats, system_rx, sess, writers, hub_ret>>
    /\ UNCHANGED threatVars /\ UNCHANGED console_ret /\ UNCHANGED uiVars

\* register_client: entry(ip).or_default().len() and the check of the limit
RegCount(c) ==
    /\ rate_call[c].pc = "idle"
    /\ next_id <= MaxRateConcClients
    /\ next_id' = next_id + 1
    /\ LET client_id == UuidOf(next_id)
           connections == IF SharedIp \in DOMAIN ip_connections
                          THEN ip_connections[SharedIp] ELSE << >>
       IN  /\ ip_connections' = MapInsert(ip_connections, SharedIp, connections)
           /\ IF AtLimit(Len(connections))
              THEN /\ rate_ret' = RateRet("register_client", client_id, "Too many connections")
                   /\ UNCHANGED rate_call
              ELSE /\ rate_call' = [rate_call EXCEPT ![c] =
                          [pc |-> "reg_push", client |-> {client_id}, ip |-> {SharedIp}]]
                   /\ rate_ret' = RateRet("none", "-", "none")
    /\ UNCHANGED <<client_limiters, message_history>>
    /\ RateFrame

\* register_client: entry(ip).or_default().push(client_id)
RegPush(c) ==
    /\ rate_call[c].pc = "reg_push"
    /\ \E client_id \in rate_call[c].client, ip \in rate_call[c].ip :
          ip_connections' = MapInsert(ip_connections, ip,
              Append(IF ip \in DOMAIN ip_connections THEN ip_connections[ip] ELSE << >>,
                     client_id))
    /\ rate_call' = [rate_call EXCEPT ![c].pc = "reg_limiter"]
    /\ rate_ret' = RateRet("none", "-", "none")
    /\ UNCHANGED <<client_limiters, message_history, next_id>>
    /\ RateFrame

\* register_client: client_limiters.insert
RegLimiter(c) ==
    /\ rate_call[c].pc = "reg_limiter"
    /\ \E client_id \in rate_call[c].client :
          client_limiters' = MapInsert(client_limiters, client_id, NewLimiter(clock))
    /\ rate_call' = [rate_call EXCEPT ![c].pc = "reg_history"]
    /\ rate_ret' = RateRet("none", "-", "none")
    /\ UNCHANGED <<ip_connections, message_history, next_id>>
    /\ RateFrame

\* register_client: message_history.insert and Ok(())
RegHistory(c) ==
    /\ rate_call[c].pc = "reg_history"
    /\ \E client_id \in rate_call[c].client :
          /\ message_history' = MapInsert(message_history, client_id, << >>)
          /\ rate_ret' = RateRet("register_client", client_id, "ok")
    /\ rate_call' = [rate_call EXCEPT ![c] = NoRateCall]
    /\ UNCHANGED <<ip_connections, client_limiters, next_id>>
    /\ RateFrame

\* unregister_client of a registered client: get_mut(&ip), retain, and the
\* drop of the guard when the Vec is empty
UnregRetain(c, client_id) ==
    /\ rate_call[c].pc = "idle"
    /\ client_id \in Registered
    /\ \A d \in RateCallers : client_id \notin rate_call[d].client
    /\ IF SharedIp \in DOMAIN ip_connections
       THEN LET connections == SeqRemove(ip_connections[SharedIp], client_id)
            IN  /\ ip_connections' = MapInsert(ip_connections, SharedIp, connections)
                /\ rate_call' = [rate_call EXCEPT ![c] =
                       [pc |-> IF connections = << >> THEN "unreg_remove" ELSE "unreg_limiter",
                        client |-> {client_id}, ip |-> {SharedIp}]]
       ELSE /\ rate_call' = [rate_call EXCEPT ![c] =
                   [pc |-> "unreg_limiter", client |-> {client_id}, ip |-> {SharedIp}]]
            /\ UNCHANGED ip_connections
    /\ rate_ret' = RateRet("none", "-", "none")
    /\ UNCHANGED <<client_limiters, message_history, next_id>>
    /\ RateFrame

\* unregister_client: ip_connections.remove(&ip)
UnregRemove(c) ==
    /\ rate_call[c].pc = "unreg_remove"
    /\ \E ip \in rate_call[c].ip : ip_connections' = MapRemove(ip_connections, ip)
    /\ rate_call' = [rate_call EXCEPT ![c].pc = "unreg_limiter"]
    /\ rate_ret' = RateRet("none", "-", "none")
    /\ UNCHANGED <<client_limiters, message_history, next_id>>
    /\ RateFrame

\* unregister_client: client_limiters.remove
UnregLimiter(c) ==
    /\ rate_call[c].pc = "unreg_limiter"
    /\ \E client_id \in rate_call[c].client :
          client_limiters' = MapRemove(client_limiters, client_id)
    /\ rate_call' = [rate_call EXCEPT ![c].pc = "unreg_history"]
    /\ rate_ret' = RateRet("none", "-", "none")
    /\ UNCHANGED <<ip_connections, message_history, next_id>>
    /\ RateFrame

\* unregister_client: message_history.remove
UnregHistory(c) ==
    /\ rate_call[c].pc = "unreg_history"
    /\ \E client_id \in rate_call[c].client :
          /\ message_history' = MapRemove(message_history, client_id)
          /\ rate_ret' = RateRet("unregister_client", client_id, "unit")
    /\ rate_call' = [rate_call EXCEPT ![c] = NoRateCall]
    /\ UNCHANGED <<ip_connections, client_limiters, next_id>>
    /\ RateFrame

NextRateConc ==
    \/ \E c \in RateCallers : RegCount(c)
    \/ \E c \in RateCallers : RegPush(c)
    \/ \E c \in RateCallers : RegLimiter(c)
    \/ \E c \in RateCallers : RegHistory(c)
    \/ \E c \in RateCallers, client_id \in {UuidOf(n) : n \in 1..MaxRateConcClients} :
          UnregRetain(c, client_id)
    \/ \E c \in RateCallers : UnregRemove(c)
    \/ \E c \in RateCallers : UnregLimiter(c)
    \/ \E c \in RateCallers : UnregHistory(c)

SpecRateConc == Init /\ [][NextRateConc]_vars

\* C35: with register and unregister calls interleaved, no more than
\* max_connections_per_ip clients of the address hold a bucket and a window,
\* and whenever no call is under way the connection count of the address is
\* the number of clients registered and not unregistered.
C35_ConcurrentConnectionLimit ==
    /\ Cardinality(Registered) <= max_connections_per_ip
    /\ (\A c \in RateCallers : rate_call[c].pc = "idle") =>
          get_connection_count(SharedIp) = Cardinality(Registered)

\* what a sequence holds after its first n elements
Suffix(seq, n) == SubSeq(seq, n + 1, Len(seq))

\* the 'left' Info logs of a sequence of SystemLogs
LeftLogCount(logs) ==
    Cardinality({i \in DOMAIN logs : logs[i].level = "Info" /\ logs[i].message = "left"})

\* the nicknames of the Left notices of a sequence of events, as a bag
LeftCount(events, nickname) ==
    Cardinality({i \in DOMAIN events :
                    /\ events[i].type = "Notice" /\ events[i].kind = "Left"
                    /\ events[i].nickname = nickname})

\* C36: every step of a session or of the operator sends one Notice{Left}
\* and one 'left' Info log for each client it takes from the registry and
\* none for anyone else; a client that enters the registry has a new id, so
\* a client is taken at most once; and a remove_client that finds no client
\* sends nothing and changes nothing.
C36_RemovalIdempotent ==
    [][(hub_ret'.op \in {"remove_client", "kick", "ban", "add_client"}) =>
          LET gone == clients \ clients'
          IN  /\ LeftLogCount(Suffix(system_rx', Len(system_rx))) = Cardinality(gone)
              /\ \A s \in Sessions : \A i \in DOMAIN writers[s] :
                    \A nickname \in Nicks :
                       LeftCount(Suffix(writers'[s][i].buf, Len(writers[s][i].buf)), nickname)
                          = Cardinality({c \in gone : c.nickname = nickname})
              /\ \A c \in clients' \ clients :
                    /\ c.id = UuidOf(next_id)
                    /\ next_id' = next_id + 1
                    /\ \A d \in clients : d.id # c.id
              /\ next_id' >= next_id
              /\ (hub_ret'.op = "remove_client" /\ ~hub_ret'.ok) =>
                    UNCHANGED <<clients, writers, system_rx, stats>>]_vars

\* channel_eof or channel_close of a session whose client the operator
\* kicked: the second removal finds nothing
C36_Witness ==
    /\ hub_ret.op = "remove_client"
    /\ ~hub_ret.ok
    /\ stats.total_kicks > 0
    /\ \E s \in Sessions : sess[s].client_id # {} /\ sess[s].st = "closed"
          /\ \A c \in clients : c.id \notin sess[s].client_id

(***************************************************************************)
(* Sessions that the operator removes (SpecRemoved): the sessions join,    *)
(* chat and close, the operator kicks and bans; no session sends EOF, so a *)
(* session with an open channel whose client left the registry was kicked  *)
(* or banned.                                                              *)
(***************************************************************************)
NextRemoved ==
    \/ \E s \in Sessions, ip \in IPs : Accept(s, ip, TRUE, TRUE)
    \/ \E s \in Sessions, method \in Methods, user \in Nicks : Auth(s, method, user)
    \/ \E s \in Sessions : ChannelOpenSession(s)
    \/ \E s \in Sessions : PtyCheckBan(s)
    \/ \E s \in Sessions : PtyAddClient(s)
    \/ \E s \in Sessions, line \in Texts : Data(s, line)
    \/ \E s \in Sessions : ChannelClose(s)
    \/ \E s \in Sessions, i \in 1..MaxConnections : WriterStep(s, i, TRUE)
    \/ \E target \in Nicks : KickClient(target)
    \/ \E target \in Nicks, duration \in BanDurations : BanClient(target, duration, TRUE)
    \/ DrainLogs

SpecRemoved == Init /\ [][NextRemoved]_vars

\* the client of session s is in the registry
Live(s) == \E c \in clients : c.id \in sess[s].client_id

\* C37: a writer task writes to the channel of a session whose client was
\* kicked or banned nothing but the notice of that client's leaving: no
\* Chat and no Notice sent after the removal.  (No channel holds an unread
\* event when a step sends, so what is written later was sent later.)
C37_NoDeliveryAfterRemoval ==
    [][\A s \in Sessions :
          (/\ hub_ret'.op = "write"
           /\ writers'[s] # writers[s]
           /\ sess[s].client_id # {}
           /\ ~Live(s)) =>
              \A w \in hub_ret'.wrote :
                 w.fmt = "notice" /\ w.text = "left" /\ w.nickname \in sess[s].nickname]_vars

\* C38: a session whose client was kicked does not become a live client
\* again: add_client succeeds only for a session that had no client before,
\* and a session has at most one writer task.
C38_NoRejoinOnSession ==
    /\ [][\A s \in Sessions :
             (/\ hub_ret'.op = "add_client"
              /\ hub_ret'.ok
              /\ sess'[s].client_id # sess[s].client_id) => sess[s].client_id = {}]_vars
    /\ [](\A s \in Sessions : Len(writers[s]) <= 1)

(***************************************************************************)
(* The rate limiter's cleanup (SpecCleanup): SpecFlood with check_rate_limit *)
(* and cleanup_inactive_clients.                                           *)
(***************************************************************************)
\* the inactive_threshold of a cleanup, in seconds
InactiveThresholds == {1, 3600}

\* the closure of retain: the client sent a message less than
\* inactive_threshold ago
Active(history, inactive_threshold, t) ==
    /\ history # << >>
    /\ duration_since(t, history[Len(history)]) < inactive_threshold

\* RateLimiter::cleanup_inactive_clients
CleanupInactiveClients(inactive_threshold) ==
    /\ message_history' =
          [client_id \in {id \in DOMAIN message_history :
                             Active(message_history[id], inactive_threshold, now)}
              |-> message_history[client_id]]
    /\ rate_ret' = RateRet("cleanup_inactive_clients", "-", "unit")
    /\ UNCHANGED <<clock, client_limiters, ip_connections, successes, flood_calls>>
    /\ UNCHANGED banVars /\ UNCHANGED hubVars /\ UNCHANGED bahnVars /\ UNCHANGED concVars
    /\ UNCHANGED threatVars /\ UNCHANGED console_ret /\ UNCHANGED uiVars
    /\ UNCHANGED rate_call

NextCleanup ==
    \/ \E client_id \in FloodClients, ip \in IPs : RegisterClient(client_id, ip)
    \/ \E client_id \in FloodClients, ip \in IPs : UnregisterClient(client_id, ip)
    \/ \E client_id \in FloodClients : CheckFlood(client_id)
    \/ \E client_id \in FloodClients : CheckRateLimit(client_id)
    \/ \E inactive_threshold \in InactiveThresholds : CleanupInactiveClients(inactive_threshold)
    \/ FloodTick

SpecCleanup == Init /\ [][NextCleanup]_vars

\* C39: a client that registered and was not unregistered has its bucket
\* and its window, and no check of it returns `Client not registered`.
C39_RegisteredKeepsWindow ==
    /\ \A client_id \in DOMAIN flood_calls :
          client_id \in DOMAIN client_limiters /\ client_id \in DOMAIN message_history
    /\ (/\ rate_ret.op \in {"check_flood", "check_rate_limit"}
        /\ rate_ret.client \in DOMAIN flood_calls) => rate_ret.res # "Client not registered"

(***************************************************************************)
(* Bans whose write of the ban list can fail (SpecBanFail): sessions join, *)
(* the operator bans by nickname or by address, and save() may return an   *)
(* error.                                                                  *)
(***************************************************************************)
NextBanFail ==
    \/ \E s \in Sessions, ip \in IPs : Accept(s, ip, TRUE, TRUE)
    \/ \E s \in Sessions, method \in Methods, user \in Nicks : Auth(s, method, user)
    \/ \E s \in Sessions : ChannelOpenSession(s)
    \/ \E s \in Sessions : PtyCheckBan(s)
    \/ \E s \in Sessions : PtyAddClient(s)
    \/ \E s \in Sessions, i \in 1..MaxConnections : WriterStep(s, i, TRUE)
    \/ \E target \in Nicks \cup IPs, duration \in BanDurations, io_ok \in BOOLEAN :
          BanClient(target, duration, io_ok)
    \/ DrainLogs

SpecBanFail == Init /\ [][NextBanFail]_vars

\* C40: a ban_client that returns an error (no such target, or the ban list
\* could not be written) changes nothing: is_banned of every address, the
\* registry, the statistics, the log channel and the clients' channels are
\* as before the call.
C40_BanAllOrNothing ==
    [][(/\ hub_ret'.op = "ban"
        /\ ~hub_ret'.ok
        /\ hub_ret' # hub_ret)
          => /\ \A ip \in IPs : is_banned_in(bans', ip, now') = is_banned_in(bans, ip, now)
             /\ clients' = clients
             /\ stats' = stats
             /\ system_rx' = system_rx
             /\ writers' = writers]_vars

====
